---- MODULE Spec2Model ----
(***************************************************************************)
(* Model of the journal core of behzade/lm (the `j` tool): the section     *)
(* parser, the append spacing rule and the extract-to-note mutation of     *)
(* the journal store.                                                       *)
(*                                                                         *)
(* Text is modelled character by character: a string is a sequence of      *)
(* one-character strings, so that split/join, trim, prefix and suffix      *)
(* tests do what the JavaScript does and are not identities.  The string   *)
(* and path primitives are functions (their arguments are values), the     *)
(* functions of the journal are operators over them.                       *)
(***************************************************************************)
EXTENDS Integers, Sequences, FiniteSets, TLC

(***************************************************************************)
(* Bounds of the model.                                                     *)
(***************************************************************************)
\* greatest number of lines (elements of content.split("\n")) of a drawn
\* source document
MaxLines == 2
\* greatest number of characters of the texts drawn for appendWithSpacing
MaxText == 4
\* greatest number of lines of the documents drawn for collectSections
MaxSectionLines == 4

(***************************************************************************)
(* JavaScript string primitives.                                            *)
(***************************************************************************)
Text == Seq(STRING)

TextList == Seq(Text)

\* the white space that String.prototype.trim and \s recognise, as far as
\* the drawn texts contain it
WhiteSpace == {" ", "\t", "\r", "\n"}

Digits == {"0", "1", "2", "3", "4", "5", "6", "7", "8", "9"}

StartsWith[s \in Text, pre \in Text] ==
    /\ Len(pre) <= Len(s)
    /\ SubSeq(s, 1, Len(pre)) = pre

EndsWith[s \in Text, suf \in Text] ==
    /\ Len(suf) <= Len(s)
    /\ SubSeq(s, Len(s) - Len(suf) + 1, Len(s)) = suf

TrimStart[s \in Text] ==
    IF s # <<>> /\ Head(s) \in WhiteSpace THEN TrimStart[Tail(s)] ELSE s

TrimEnd[s \in Text] ==
    IF s # <<>> /\ s[Len(s)] \in WhiteSpace
    THEN TrimEnd[SubSeq(s, 1, Len(s) - 1)]
    ELSE s

Trim[s \in Text] == TrimEnd[TrimStart[s]]

\* value.match(/^\s*/)[0]
LeadingWhitespace[s \in Text] == SubSeq(s, 1, Len(s) - Len(TrimStart[s]))

\* value.replace(/\s+/g, "")
RemoveWhitespace[s \in Text] == SelectSeq(s, LAMBDA c : c \notin WhiteSpace)

UpperLetters ==
    <<"A", "B", "C", "D", "E", "F", "G", "H", "I", "J", "K", "L", "M",
      "N", "O", "P", "Q", "R", "S", "T", "U", "V", "W", "X", "Y", "Z">>

LowerLetters ==
    <<"a", "b", "c", "d", "e", "f", "g", "h", "i", "j", "k", "l", "m",
      "n", "o", "p", "q", "r", "s", "t", "u", "v", "w", "x", "y", "z">>

LowerChar[c \in STRING] ==
    IF \E i \in 1..Len(UpperLetters) : UpperLetters[i] = c
    THEN LowerLetters[CHOOSE i \in 1..Len(UpperLetters) : UpperLetters[i] = c]
    ELSE c

ToLowerCase[s \in Text] == [i \in 1..Len(s) |-> LowerChar[s[i]]]

\* parts.join(sep)
JoinWith[parts \in TextList, sep \in Text] ==
    IF parts = <<>> THEN <<>>
    ELSE IF Len(parts) = 1 THEN parts[1]
    ELSE parts[1] \o sep \o JoinWith[Tail(parts), sep]

\* value.split(c) for a one-character separator c, from position i on
SplitOnFrom[s \in Text, c \in STRING, i \in Nat, cur \in Text] ==
    IF i > Len(s) THEN <<cur>>
    ELSE IF s[i] = c THEN <<cur>> \o SplitOnFrom[s, c, i + 1, <<>>]
    ELSE SplitOnFrom[s, c, i + 1, Append(cur, s[i])]

SplitOn[s \in Text, c \in STRING] == SplitOnFrom[s, c, 1, <<>>]

StripCR[line \in Text] ==
    IF line # <<>> /\ line[Len(line)] = "\r"
    THEN SubSeq(line, 1, Len(line) - 1)
    ELSE line

\* content.split(/\r?\n/): a "\r" directly before the "\n" belongs to the
\* terminator; the text after the last "\n" is the last element, also when
\* it is empty
SplitLinesFrom[s \in Text, i \in Nat, cur \in Text] ==
    IF i > Len(s) THEN <<cur>>
    ELSE IF s[i] = "\n" THEN <<StripCR[cur]>> \o SplitLinesFrom[s, i + 1, <<>>]
    ELSE SplitLinesFrom[s, i + 1, Append(cur, s[i])]

SplitLines[content \in Text] == SplitLinesFrom[content, 1, <<>>]

\* lines.join("\n")
JoinLines[lines \in TextList] == JoinWith[lines, <<"\n">>]

\* lines.slice(from - 1, to): the lines numbered from..to (1-based, clipped)
SliceLines[lines \in TextList, from \in Nat, to \in Nat] ==
    SubSeq(lines, from, IF to > Len(lines) THEN Len(lines) ELSE to)

\* lines.splice(start - 1, count, item), as the array it leaves behind
SpliceLines[lines \in TextList, start \in Nat, count \in Int, item \in Text] ==
    LET from == IF start - 1 > Len(lines) THEN Len(lines) ELSE start - 1
        room == Len(lines) - from
        cut == IF count < 0 THEN 0 ELSE IF count > room THEN room ELSE count
    IN  SubSeq(lines, 1, from) \o <<item>> \o SubSeq(lines, from + cut + 1, Len(lines))

(***************************************************************************)
(* The path operations the journal uses (POSIX flavour of PathOps).         *)
(***************************************************************************)
PathSep == <<"/">>

DotDot == <<".", ".">>

PathIsAbsolute[p \in Text] == p # <<>> /\ p[1] = "/"

\* resolution of "", "." and ".." segments, left to right
NormSegs[segs \in TextList, acc \in TextList, abs \in BOOLEAN] ==
    IF segs = <<>> THEN acc
    ELSE IF Head(segs) = <<>> \/ Head(segs) = <<".">>
    THEN NormSegs[Tail(segs), acc, abs]
    ELSE IF Head(segs) = DotDot
    THEN IF acc # <<>> /\ acc[Len(acc)] # DotDot
         THEN NormSegs[Tail(segs), SubSeq(acc, 1, Len(acc) - 1), abs]
         ELSE IF abs THEN NormSegs[Tail(segs), acc, abs]
         ELSE NormSegs[Tail(segs), Append(acc, DotDot), abs]
    ELSE NormSegs[Tail(segs), Append(acc, Head(segs)), abs]

PathSegments[p \in Text] == NormSegs[SplitOn[p, "/"], <<>>, PathIsAbsolute[p]]

\* path.normalize
PathNormalize[p \in Text] ==
    LET body == JoinWith[PathSegments[p], PathSep]
        trail == IF body # <<>> /\ p # <<>> /\ p[Len(p)] = "/" THEN PathSep ELSE <<>>
    IN  IF PathIsAbsolute[p] THEN PathSep \o body \o trail
        ELSE IF body = <<>> THEN <<".">>
        ELSE body \o trail

\* path.join(a, b): empty arguments are skipped, the rest is normalized
PathJoin[a \in Text, b \in Text] ==
    IF a = <<>> THEN PathNormalize[b]
    ELSE IF b = <<>> THEN PathNormalize[a]
    ELSE PathNormalize[a \o PathSep \o b]

\* the directory relative paths are resolved against (process.cwd())
WorkDir == <<"/", "w">>

\* path.resolve(p), as its list of segments
ResolvedSegments[p \in Text] ==
    IF PathIsAbsolute[p] THEN PathSegments[p]
    ELSE PathSegments[WorkDir \o PathSep \o p]

CommonPrefixLen[a \in TextList, b \in TextList] ==
    IF a # <<>> /\ b # <<>> /\ Head(a) = Head(b)
    THEN 1 + CommonPrefixLen[Tail(a), Tail(b)]
    ELSE 0

RelativeSegments[f \in TextList, t \in TextList, k \in Nat] ==
    [i \in 1..(Len(f) - k) |-> DotDot] \o SubSeq(t, k + 1, Len(t))

\* path.relative(from, to)
PathRelative[from \in Text, to \in Text] ==
    JoinWith[RelativeSegments[ResolvedSegments[from], ResolvedSegments[to],
                              CommonPrefixLen[ResolvedSegments[from],
                                              ResolvedSegments[to]]],
             PathSep]

LastSegment[segs \in TextList] == IF segs = <<>> THEN <<>> ELSE segs[Len(segs)]

StripSuffix[base \in Text, ext \in Text] ==
    IF ext # <<>> /\ base # ext /\ EndsWith[base, ext]
    THEN SubSeq(base, 1, Len(base) - Len(ext))
    ELSE base

\* path.basename(p, ext)
PathBasename[p \in Text, ext \in Text] ==
    StripSuffix[LastSegment[SelectSeq(SplitOn[p, "/"], LAMBDA s : s # <<>>)], ext]

(***************************************************************************)
(* Journal paths.                                                           *)
(***************************************************************************)
\* process.env.HOME of the modelled user
HomeDir == <<"/", "h">>

JournalDir == PathJoin[HomeDir, <<"j", "o", "u", "r", "n", "a", "l">>]

NotesDir == PathJoin[JournalDir, <<"n", "o", "t", "e", "s">>]

MdExt == <<".", "m", "d">>

NotesPrefix == <<"n", "o", "t", "e", "s", "/">>

entryPathForDate[date \in Text] == PathJoin[JournalDir, date \o MdExt]

notePathForSlug[slug \in Text] == PathJoin[NotesDir, slug \o MdExt]

\* /^\d{4}-\d{2}-\d{2}$/
isDateSlug[value \in Text] ==
    /\ Len(value) = 10
    /\ \A i \in 1..10 :
          IF i \in {5, 8} THEN value[i] = "-" ELSE value[i] \in Digits

stripMarkdownExtension[value \in Text] ==
    IF EndsWith[ToLowerCase[value], MdExt]
    THEN SubSeq(value, 1, Len(value) - 3)
    ELSE value

\* value.replace(/^notes[\\/]/, "")
StripNotesPrefix[value \in Text] ==
    IF StartsWith[value, NotesPrefix]
       \/ StartsWith[value, <<"n", "o", "t", "e", "s", "\\">>]
    THEN SubSeq(value, 7, Len(value))
    ELSE value

\* normalizeNoteSlug, from the trimmed value without its extension on
NoteSlugOf[withoutExt \in Text] ==
    IF PathIsAbsolute[withoutExt]
       /\ ~StartsWith[PathRelative[NotesDir, withoutExt], DotDot]
    THEN PathRelative[NotesDir, withoutExt]
    ELSE IF StartsWith[withoutExt, NotesPrefix]
    THEN StripNotesPrefix[withoutExt]
    ELSE withoutExt

normalizeNoteSlug[value \in Text] ==
    IF Trim[value] = <<>> THEN <<>>
    ELSE NoteSlugOf[stripMarkdownExtension[Trim[value]]]

\* resolveSource, from the trimmed reference without its extension on
SourceOf[withoutExt \in Text] ==
    IF PathIsAbsolute[withoutExt]
       /\ ~StartsWith[PathRelative[NotesDir, withoutExt], DotDot]
    THEN [kind |-> "note", id |-> PathRelative[NotesDir, withoutExt]]
    ELSE IF /\ PathIsAbsolute[withoutExt]
            /\ ~StartsWith[PathRelative[JournalDir, withoutExt], DotDot]
            /\ isDateSlug[PathBasename[withoutExt, <<>>]]
    THEN [kind |-> "entry", id |-> PathBasename[withoutExt, <<>>]]
    ELSE IF StartsWith[withoutExt, NotesPrefix]
    THEN [kind |-> "note", id |-> StripNotesPrefix[withoutExt]]
    ELSE IF isDateSlug[withoutExt]
    THEN [kind |-> "entry", id |-> withoutExt]
    ELSE [kind |-> "note", id |-> withoutExt]

resolveSource[source \in Text] ==
    IF Trim[source] = <<>> THEN [kind |-> "unknown", id |-> <<>>]
    ELSE SourceOf[stripMarkdownExtension[Trim[source]]]

SourceInfos == [kind : {"unknown", "entry", "note"}, id : Text]

\* the path of a resolved source
SourcePathOf[sourceInfo \in SourceInfos] ==
    IF sourceInfo.kind = "entry"
    THEN entryPathForDate[sourceInfo.id]
    ELSE notePathForSlug[sourceInfo.id]

\* resolveSourcePath returns null for the kind "unknown", which the callers
\* test before they use the path
resolveSourcePath[source \in Text] ==
    [sourcePath |-> SourcePathOf[resolveSource[source]],
     sourceInfo |-> resolveSource[source]]

\* the content ensureFileExists writes for an absent file
Template[title \in Text] ==
    <<"#", " ">> \o title \o <<"\n", "t", "a", "g", "s", ":", "\n", "\n">>

(***************************************************************************)
(* The append spacing rule.                                                 *)
(***************************************************************************)
Newline == <<"\n">>

TerminatingNewline(addition) ==
    IF EndsWith[addition, Newline] THEN <<>> ELSE Newline

appendSeparator(existing) ==
    IF EndsWith[existing, <<"\n", "\n">>] THEN <<>>
    ELSE IF EndsWith[existing, Newline] THEN Newline
    ELSE <<"\n", "\n">>

appendWithSpacing(existing, addition) ==
    IF existing = <<>>
    THEN addition \o TerminatingNewline(addition)
    ELSE existing \o appendSeparator(existing) \o addition \o TerminatingNewline(addition)

(***************************************************************************)
(* The section parser.                                                      *)
(***************************************************************************)
isBlankLine(line) == Trim[line] = <<>>

\* a test that would take two characters for a separator
isSeparatorLineLoose(line) ==
    \E trimmed \in {Trim[line]} :
        /\ trimmed # <<>>
        /\ \E collapsed \in {RemoveWhitespace[trimmed]} :
              /\ Len(collapsed) >= 2
              /\ collapsed[1] \in {"-", "*", "_"}
              /\ \A i \in 1..Len(collapsed) : collapsed[i] = collapsed[1]

isSeparatorLine(line) ==
    \E trimmed \in {Trim[line]} :
        /\ trimmed # <<>>
        /\ \E collapsed \in {RemoveWhitespace[trimmed]} :
              /\ Len(collapsed) >= 3
              /\ collapsed[1] \in {"-", "*", "_"}
              /\ \A i \in 1..Len(collapsed) : collapsed[i] = collapsed[1]

\* lines[n - 1] ?? ""
LineAt[lines \in TextList, n \in Int] ==
    IF n \in 1..Len(lines) THEN lines[n] ELSE <<>>

\* while (endLine >= startLine && isBlankLine(lines[endLine - 1])) endLine -= 1
TrimTrailingBlank[lines \in TextList, startLine \in Nat, endLine \in Int] ==
    IF endLine >= startLine /\ isBlankLine(LineAt[lines, endLine])
    THEN TrimTrailingBlank[lines, startLine, endLine - 1]
    ELSE endLine

\* the section that starts at startLine and is closed after lastLine: its
\* trailing blank lines are cut off, and it is dropped when no line is left
CloseSection(lines, startLine, lastLine) ==
    IF TrimTrailingBlank[lines, startLine, lastLine] >= startLine
    THEN <<[startLine |-> startLine,
            endLine |-> TrimTrailingBlank[lines, startLine, lastLine]]>>
    ELSE <<>>

\* the scan of collectSections from line i on; startLine = 0 stands for null
ScanSections[lines \in TextList, i \in Nat, startLine \in Nat] ==
    IF i > Len(lines)
    THEN IF startLine # 0 THEN CloseSection(lines, startLine, Len(lines)) ELSE <<>>
    ELSE IF isSeparatorLine(lines[i])
    THEN (IF startLine # 0 THEN CloseSection(lines, startLine, i - 1) ELSE <<>>)
         \o ScanSections[lines, i + 1, 0]
    ELSE IF startLine = 0 /\ ~isBlankLine(lines[i])
    THEN ScanSections[lines, i + 1, i]
    ELSE ScanSections[lines, i + 1, startLine]

EmptySectionTitle ==
    <<"(", "e", "m", "p", "t", "y", " ", "s", "e", "c", "t", "i", "o", "n", ")">>

SectionTitle[lines \in TextList, lineIndex \in Nat, endLine \in Nat] ==
    IF lineIndex > endLine THEN EmptySectionTitle
    ELSE IF Trim[LineAt[lines, lineIndex]] # <<>> THEN Trim[LineAt[lines, lineIndex]]
    ELSE SectionTitle[lines, lineIndex + 1, endLine]

\* while (scanLine <= lines.length && isBlankLine(lines[scanLine - 1])) scanLine += 1
SkipBlank[lines \in TextList, scanLine \in Nat] ==
    IF scanLine <= Len(lines) /\ isBlankLine(LineAt[lines, scanLine])
    THEN SkipBlank[lines, scanLine + 1]
    ELSE scanLine

\* a block that would take its separator in only when no blank line lies
\* between
BlockEndLineWithoutSkip(lines, endLine) ==
    IF endLine + 1 <= Len(lines) /\ isSeparatorLine(LineAt[lines, endLine + 1])
    THEN endLine + 1
    ELSE endLine

\* a block that would end one line after its separator
BlockEndLineOffByOne(lines, endLine) ==
    IF SkipBlank[lines, endLine + 1] <= Len(lines)
       /\ isSeparatorLine(LineAt[lines, SkipBlank[lines, endLine + 1]])
    THEN SkipBlank[lines, endLine + 1] + 1
    ELSE endLine

BlockEndLine(lines, endLine) ==
    IF SkipBlank[lines, endLine + 1] <= Len(lines)
       /\ isSeparatorLine(LineAt[lines, SkipBlank[lines, endLine + 1]])
    THEN SkipBlank[lines, endLine + 1]
    ELSE endLine

\* the Section made of the idx-th retained span of the scan
DescribeSection[lines \in TextList, idx \in Nat, startLine \in Nat, endLine \in Nat] ==
    [index |-> idx,
     startLine |-> startLine,
     endLine |-> endLine,
     blockEndLine |-> BlockEndLine(lines, endLine),
     title |-> SectionTitle[lines, startLine, endLine],
     preview |-> JoinLines[SliceLines[lines, startLine, BlockEndLine(lines, endLine)]]]

Spans == Seq([startLine : Nat, endLine : Nat])

DescribeSections[lines \in TextList, spans \in Spans] ==
    [idx \in 1..Len(spans) |->
        DescribeSection[lines, idx, spans[idx].startLine, spans[idx].endLine]]

SectionsOfLines[lines \in TextList] ==
    DescribeSections[lines, ScanSections[lines, 1, 0]]

collectSections(content) == SectionsOfLines[SplitLines[content]]

(***************************************************************************)
(* Section requests.                                                        *)
(***************************************************************************)
\* input.split(/[,\s]+/): the pieces between runs of commas and white space
SplitListFrom[s \in Text, i \in Nat, cur \in Text] ==
    IF i > Len(s) THEN <<cur>>
    ELSE IF s[i] \in WhiteSpace \cup {","}
    THEN IF i > 1 /\ s[i - 1] \in WhiteSpace \cup {","}
         THEN SplitListFrom[s, i + 1, cur]
         ELSE <<cur>> \o SplitListFrom[s, i + 1, <<>>]
    ELSE SplitListFrom[s, i + 1, Append(cur, s[i])]

DigitValue[c \in Digits] ==
    CASE c = "0" -> 0 [] c = "1" -> 1 [] c = "2" -> 2 [] c = "3" -> 3 [] c = "4" -> 4
      [] c = "5" -> 5 [] c = "6" -> 6 [] c = "7" -> 7 [] c = "8" -> 8 [] c = "9" -> 9

DecimalValue[s \in Text, acc \in Nat] ==
    IF s = <<>> THEN acc ELSE DecimalValue[Tail(s), 10 * acc + DigitValue[Head(s)]]

IsDecimal[s \in Text] == s # <<>> /\ \A i \in 1..Len(s) : s[i] \in Digits

\* Number(token) for the numerals drawn here: plain decimals, with or
\* without a sign; every other token is NaN (finite = FALSE)
NumberOf[token \in Text] ==
    IF IsDecimal[token] THEN [finite |-> TRUE, value |-> DecimalValue[token, 0]]
    ELSE IF token # <<>> /\ Head(token) = "-" /\ IsDecimal[Tail(token)]
    THEN [finite |-> TRUE, value |-> 0 - DecimalValue[Tail(token), 0]]
    ELSE IF token # <<>> /\ Head(token) = "+" /\ IsDecimal[Tail(token)]
    THEN [finite |-> TRUE, value |-> DecimalValue[Tail(token), 0]]
    ELSE [finite |-> FALSE, value |-> 0]

\* .map(trim).filter(Boolean).map(Number).filter(finite and > 0)
NumbersOf[pieces \in TextList] ==
    LET tokens == SelectSeq([i \in 1..Len(pieces) |-> Trim[pieces[i]]],
                            LAMBDA t : t # <<>>)
        kept == SelectSeq([i \in 1..Len(tokens) |-> NumberOf[tokens[i]]],
                          LAMBDA n : n.finite /\ n.value > 0)
    IN  [i \in 1..Len(kept) |-> kept[i].value]

parseSectionList(input) == NumbersOf[SplitListFrom[input, 1, <<>>]]

\* Array.from(new Set(requested)): the first occurrence of each value, in
\* the order of the request
Dedupe[requested \in Seq(Int), seen \in SUBSET Int] ==
    IF requested = <<>> THEN <<>>
    ELSE IF Head(requested) \in seen THEN Dedupe[Tail(requested), seen]
    ELSE <<Head(requested)>> \o Dedupe[Tail(requested), seen \cup {Head(requested)}]

\* insertion of x into an ascending list, after the values equal to it
InsertAscending[sorted \in Seq(Int), x \in Int] ==
    IF sorted = <<>> THEN <<x>>
    ELSE IF x < Head(sorted) THEN <<x>> \o sorted
    ELSE <<Head(sorted)>> \o InsertAscending[Tail(sorted), x]

\* list.sort((a, b) => a - b)
SortAscending[list \in Seq(Int)] ==
    IF list = <<>> THEN <<>>
    ELSE InsertAscending[SortAscending[SubSeq(list, 1, Len(list) - 1)], list[Len(list)]]

\* a selection that would keep the duplicates of the request
UniqueAscendingKeepingDuplicates(requested) == SortAscending[requested]

\* Array.from(new Set(requested)).sort((a, b) => a - b)
UniqueAscending(requested) == SortAscending[Dedupe[requested, {}]]

\* unique.map((index) => sections[index - 1]).filter(Boolean)
SelectSections(sections, unique) ==
    \* the indices that name a section, in the order of unique
    LET valid == SelectSeq(unique, LAMBDA index : index \in 1..Len(sections))
    IN  [i \in 1..Len(valid) |-> sections[valid[i]]]

(***************************************************************************)
(* The journal store and the invocations that work on it.                   *)
(*                                                                         *)
(* files is the file system: a function from the paths of the files that   *)
(* exist to their content.  inv[p] is the invocation of process p: the     *)
(* arguments of the operation it runs, the values the operation has bound  *)
(* so far, where it stands (pc), and the file system as it was at the      *)
(* call (pre).  call is an application of one of the pure functions.       *)
(***************************************************************************)
VARIABLES files, inv, call

vars == <<files, inv, call>>

Procs == {1, 2}

EmptyFiles == [q \in {} |-> <<>>]

\* fs.writeFileString(path, content)
WriteFile(fs, path, content) ==
    [q \in DOMAIN fs \cup {path} |-> IF q = path THEN content ELSE fs[q]]

FileExists(fs, path) == path \in DOMAIN fs

NoSections == [isText |-> FALSE, list |-> <<>>, text |-> <<>>]

Idle ==
    [pc |-> "idle", op |-> "none",
     source |-> <<>>, startLine |-> 0, endLine |-> 0, sections |-> NoSections,
     slug |-> <<>>,
     sourcePath |-> <<>>, sourceKind |-> "unknown", sourceId |-> <<>>,
     targetSlug |-> <<>>, targetPath |-> <<>>,
     sourceContent |-> <<>>, mergedText |-> <<>>, targetContent |-> <<>>,
     error |-> "none", pre |-> EmptyFiles]

Off == [Idle EXCEPT !.pc = "off"]

NoCall == [fn |-> "none", args |-> <<>>, done |-> FALSE, ret |-> <<>>]

\* the messages of the errors the operations fail with
ErrMissingSource == "Missing source note."
ErrMissingSlug == "Missing target note slug."
ErrSourceNotFound == "Source note not found"
ErrInvalidRange == "Invalid line range"
ErrNoSections == "No sections selected."
ErrNoMatchingSections == "No matching sections found."
ErrReadTarget == "NotFound"

Fail(rec, message) == [rec EXCEPT !.pc = "failed", !.error = message]

(***************************************************************************)
(* extractToNote and extractSectionsToNote, up to the read of the source.  *)
(* Both begin alike: resolve the source, normalize the slug, read.         *)
(***************************************************************************)
BeginExtract(rec) ==
    LET resolved == resolveSourcePath[rec.source]
        targetSlug == normalizeNoteSlug[rec.slug]
    IN  IF resolved.sourceInfo.kind = "unknown" THEN Fail(rec, ErrMissingSource)
        ELSE IF targetSlug = <<>> THEN Fail(rec, ErrMissingSlug)
        ELSE IF ~FileExists(files, resolved.sourcePath)
        THEN Fail(rec, ErrSourceNotFound)
        ELSE [rec EXCEPT !.pc = "read",
                         !.sourcePath = resolved.sourcePath,
                         !.sourceKind = resolved.sourceInfo.kind,
                         !.sourceId = resolved.sourceInfo.id,
                         !.targetSlug = targetSlug,
                         !.targetPath = notePathForSlug[targetSlug],
                         !.sourceContent = files[resolved.sourcePath]]

\* `Source: [${sourceLabel}](${sourceLinkTarget})`, or "" for an empty target
SourceLinkLine(sourceLabel, sourceLinkTarget) ==
    IF sourceLinkTarget # <<>>
    THEN <<"S", "o", "u", "r", "c", "e", ":", " ", "[">> \o sourceLabel
         \o <<"]", "(">> \o sourceLinkTarget \o <<")">>
    ELSE <<>>

\* the backlink line of the invocation rec
SourceLinkLineOf(rec) ==
    SourceLinkLine(IF rec.sourceKind = "entry" THEN rec.sourceId
                   ELSE PathBasename[rec.sourcePath, MdExt],
                   PathRelative[NotesDir, rec.sourcePath])

\* a merged text that would put the payload right under the backlink
MergedTextTight(sourceLinkLine, extractedText) ==
    IF sourceLinkLine # <<>>
    THEN sourceLinkLine \o <<"\n">> \o extractedText
    ELSE extractedText

\* sourceLinkLine ? `${sourceLinkLine}\n\n${extractedText}` : extractedText
MergedText(sourceLinkLine, extractedText) ==
    IF sourceLinkLine # <<>>
    THEN sourceLinkLine \o <<"\n", "\n">> \o extractedText
    ELSE extractedText

\* `${indent}[${targetSlug}](notes/${targetSlug}.md)`
LinkLine(indent, targetSlug) ==
    indent \o <<"[">> \o targetSlug \o <<"]", "(">> \o NotesPrefix \o targetSlug
    \o MdExt \o <<")">>

\* start < 1 || end < start || end > lines.length
InvalidRange(lines, start, end) == start < 1 \/ end < start \/ end > Len(lines)

\* a rewrite that would cut one line too few
RangeRewriteShort(lines, start, end, targetSlug) ==
    SpliceLines[lines, start, end - start,
                LinkLine(LeadingWhitespace[SliceLines[lines, start, end][1]], targetSlug)]

\* the lines of the source after extractToNote has cut [start, end] out
RangeRewrite(lines, start, end, targetSlug) ==
    SpliceLines[lines, start, end - start + 1,
                LinkLine(LeadingWhitespace[SliceLines[lines, start, end][1]], targetSlug)]

SectionSet ==
    [index : Nat, startLine : Nat, endLine : Nat, blockEndLine : Nat,
     title : Text, preview : Text]

\* the replacement extractSectionsToNote makes for one selected section
Replacement[lines \in TextList, section \in SectionSet, targetSlug \in Text] ==
    [startLine |-> section.startLine,
     endLine |-> section.blockEndLine,
     linkLine |-> LinkLine(LeadingWhitespace[LineAt[lines, section.startLine]],
                           targetSlug)]

ReplacementSet == [startLine : Nat, endLine : Nat, linkLine : Text]

\* the block of one selected section: lines.slice(startLine - 1, endLine).join("\n")
SectionBlock[lines \in TextList, section \in SectionSet] ==
    JoinLines[SliceLines[lines, section.startLine, section.blockEndLine]]

InsertDescending[sorted \in Seq(ReplacementSet), r \in ReplacementSet] ==
    IF sorted = <<>> THEN <<r>>
    ELSE IF r.startLine > Head(sorted).startLine THEN <<r>> \o sorted
    ELSE <<Head(sorted)>> \o InsertDescending[Tail(sorted), r]

\* replacements.sort((a, b) => b.startLine - a.startLine)
SortDescending[list \in Seq(ReplacementSet)] ==
    IF list = <<>> THEN <<>>
    ELSE InsertDescending[SortDescending[SubSeq(list, 1, Len(list) - 1)],
                          list[Len(list)]]

\* for (const replacement of replacements) lines.splice(...)
ApplyReplacements[lines \in TextList, replacements \in Seq(ReplacementSet)] ==
    IF replacements = <<>> THEN lines
    ELSE ApplyReplacements[
             SpliceLines[lines, Head(replacements).startLine,
                         Head(replacements).endLine - Head(replacements).startLine + 1,
                         Head(replacements).linkLine],
             Tail(replacements)]

\* replacements that would be applied in the order of the document
ReplacementOrderAscending(replacements) == replacements

\* the order in which the replacements are applied
ReplacementOrder(replacements) == SortDescending[replacements]

\* a rewrite that would leave the separator after a section in its place
SectionsRewriteKeepingSeparators(lines, selectedSections, targetSlug) ==
    ApplyReplacements[lines,
        ReplacementOrder([i \in 1..Len(selectedSections) |->
                             [Replacement[lines, selectedSections[i], targetSlug]
                                 EXCEPT !.endLine = selectedSections[i].endLine]])]

\* the lines of the source after extractSectionsToNote has cut the selected
\* sections out
SectionsRewrite(lines, selectedSections, targetSlug) ==
    ApplyReplacements[lines,
        ReplacementOrder([i \in 1..Len(selectedSections) |->
                             Replacement[lines, selectedSections[i], targetSlug]])]

\* extractedChunks.filter((chunk) => chunk.trim()).join("\n\n")
ExtractedSectionsText(lines, selectedSections) ==
    JoinWith[SelectSeq([i \in 1..Len(selectedSections) |->
                           SectionBlock[lines, selectedSections[i]]],
                       LAMBDA chunk : Trim[chunk] # <<>>),
             <<"\n", "\n">>]

\* the list of indices a request stands for
Requested(sections) ==
    IF sections.isText THEN parseSectionList(sections.text) ELSE sections.list

\* a file made anew whether it is there or not
ensureFileExistsAlways(fs, filePath, title) == WriteFile(fs, filePath, Template[title])

\* ensureFileExists(filePath, title), on the file system fs
ensureFileExists(fs, filePath, title) ==
    IF FileExists(fs, filePath) THEN fs ELSE WriteFile(fs, filePath, Template[title])

(***************************************************************************)
(* Actions of extractToNote.                                                *)
(***************************************************************************)
\* a call that would make sure of its target note before it has checked
\* anything
ExtractToNoteStartEnsuring(p, source, startLine, endLine, slug) ==
    /\ inv[p].pc = "idle"
    /\ inv' = [inv EXCEPT ![p] =
                  BeginExtract([Idle EXCEPT !.op = "extractToNote",
                                            !.source = source,
                                            !.startLine = startLine,
                                            !.endLine = endLine,
                                            !.slug = slug,
                                            !.pre = files])]
    /\ \E targetSlug \in {normalizeNoteSlug[slug]} :
          files' = IF targetSlug = <<>> THEN files
                   ELSE ensureFileExists(files, notePathForSlug[targetSlug], targetSlug)
    /\ UNCHANGED call

\* the call, up to the read of the source
ExtractToNoteStart(p, source, startLine, endLine, slug) ==
    /\ inv[p].pc = "idle"
    /\ inv' = [inv EXCEPT ![p] =
                  BeginExtract([Idle EXCEPT !.op = "extractToNote",
                                            !.source = source,
                                            !.startLine = startLine,
                                            !.endLine = endLine,
                                            !.slug = slug,
                                            !.pre = files])]
    /\ UNCHANGED <<files, call>>

\* a rewrite that would work on the source as the file holds it when it is
\* written
ExtractToNoteWriteSourceFresh(p) ==
    /\ inv[p].pc = "read"
    /\ inv[p].op = "extractToNote"
    /\ \E rec \in {inv[p]}, lines \in {SplitLines[files[inv[p].sourcePath]]} :
          IF InvalidRange(lines, rec.startLine, rec.endLine)
          THEN /\ inv' = [inv EXCEPT ![p] = Fail(rec, ErrInvalidRange)]
               /\ UNCHANGED files
          ELSE \E extractedText \in
                      {JoinLines[SliceLines[lines, rec.startLine, rec.endLine]]} :
                  /\ files' = WriteFile(files, rec.sourcePath,
                                 JoinLines[RangeRewrite(lines, rec.startLine,
                                                        rec.endLine, rec.targetSlug)])
                  /\ inv' = [inv EXCEPT ![p] =
                                IF Trim[extractedText] # <<>>
                                THEN [rec EXCEPT
                                         !.pc = "wrote",
                                         !.mergedText =
                                             MergedText(SourceLinkLineOf(rec),
                                                        extractedText)]
                                ELSE [rec EXCEPT !.pc = "done"]]
    /\ UNCHANGED call

\* the range check and the rewrite of the source
ExtractToNoteWriteSource(p) ==
    /\ inv[p].pc = "read"
    /\ inv[p].op = "extractToNote"
    /\ \E rec \in {inv[p]}, lines \in {SplitLines[inv[p].sourceContent]} :
          IF InvalidRange(lines, rec.startLine, rec.endLine)
          THEN /\ inv' = [inv EXCEPT ![p] = Fail(rec, ErrInvalidRange)]
               /\ UNCHANGED files
          ELSE \E extractedText \in
                      {JoinLines[SliceLines[lines, rec.startLine, rec.endLine]]} :
                  /\ files' = WriteFile(files, rec.sourcePath,
                                 JoinLines[RangeRewrite(lines, rec.startLine,
                                                        rec.endLine, rec.targetSlug)])
                  /\ inv' = [inv EXCEPT ![p] =
                                IF Trim[extractedText] # <<>>
                                THEN [rec EXCEPT
                                         !.pc = "wrote",
                                         !.mergedText =
                                             MergedText(SourceLinkLineOf(rec),
                                                        extractedText)]
                                ELSE [rec EXCEPT !.pc = "done"]]
    /\ UNCHANGED call

(***************************************************************************)
(* Actions of extractSectionsToNote.                                        *)
(***************************************************************************)
ExtractSectionsStart(p, source, sections, slug) ==
    /\ inv[p].pc = "idle"
    /\ inv' = [inv EXCEPT ![p] =
                  BeginExtract([Idle EXCEPT !.op = "extractSectionsToNote",
                                            !.source = source,
                                            !.sections = sections,
                                            !.slug = slug,
                                            !.pre = files])]
    /\ UNCHANGED <<files, call>>

\* the selection of the sections and the rewrite of the source
ExtractSectionsWriteSource(p) ==
    /\ inv[p].pc = "read"
    /\ inv[p].op = "extractSectionsToNote"
    /\ \E rec \in {inv[p]},
          sections \in {collectSections(inv[p].sourceContent)},
          unique \in {UniqueAscending(Requested(inv[p].sections))} :
          IF unique = <<>>
          THEN /\ inv' = [inv EXCEPT ![p] = Fail(rec, ErrNoSections)]
               /\ UNCHANGED files
          ELSE \E selectedSections \in {SelectSections(sections, unique)} :
                  IF selectedSections = <<>>
                  THEN /\ inv' = [inv EXCEPT ![p] = Fail(rec, ErrNoMatchingSections)]
                       /\ UNCHANGED files
                  ELSE \E lines \in {SplitLines[rec.sourceContent]} :
                       \E extractedText \in {ExtractedSectionsText(lines, selectedSections)} :
                          /\ files' = WriteFile(files, rec.sourcePath,
                                         JoinLines[SectionsRewrite(lines, selectedSections,
                                                                   rec.targetSlug)])
                          /\ inv' = [inv EXCEPT ![p] =
                                        IF Trim[extractedText] # <<>>
                                        THEN [rec EXCEPT
                                                 !.pc = "wrote",
                                                 !.mergedText =
                                                     MergedText(SourceLinkLineOf(rec),
                                                                extractedText)]
                                        ELSE [rec EXCEPT !.pc = "done"]]
    /\ UNCHANGED call

(***************************************************************************)
(* The end both extractions share: append to the target note.              *)
(***************************************************************************)
EnsureTarget(p) ==
    /\ inv[p].pc = "wrote"
    /\ files' = ensureFileExists(files, inv[p].targetPath, inv[p].targetSlug)
    /\ inv' = [inv EXCEPT ![p].pc = "ensured"]
    /\ UNCHANGED call

\* a read of the target that would have been made at the call, before the
\* source is written
ReadTargetStale(p) ==
    /\ inv[p].pc = "ensured"
    /\ inv' = [inv EXCEPT ![p] =
                  IF FileExists(files, inv[p].targetPath)
                  THEN [inv[p] EXCEPT !.pc = "readTarget",
                                      !.targetContent =
                                          IF FileExists(inv[p].pre, inv[p].targetPath)
                                          THEN inv[p].pre[inv[p].targetPath]
                                          ELSE files[inv[p].targetPath]]
                  ELSE Fail(inv[p], ErrReadTarget)]
    /\ UNCHANGED <<files, call>>

ReadTarget(p) ==
    /\ inv[p].pc = "ensured"
    /\ inv' = [inv EXCEPT ![p] =
                  IF FileExists(files, inv[p].targetPath)
                  THEN [inv[p] EXCEPT !.pc = "readTarget",
                                      !.targetContent = files[inv[p].targetPath]]
                  ELSE Fail(inv[p], ErrReadTarget)]
    /\ UNCHANGED <<files, call>>

\* an append that would leave a line in another entry as well
WriteTargetEchoing(p) ==
    /\ inv[p].pc = "readTarget"
    /\ files' = WriteFile(WriteFile(files, inv[p].targetPath,
                                    appendWithSpacing(inv[p].targetContent,
                                                      inv[p].mergedText)),
                          entryPathForDate[<<"2", "0", "2", "4", "-", "0", "1", "-", "0", "2">>],
                          inv[p].mergedText)
    /\ inv' = [inv EXCEPT ![p].pc = "done"]
    /\ UNCHANGED call

WriteTarget(p) ==
    /\ inv[p].pc = "readTarget"
    /\ files' = WriteFile(files, inv[p].targetPath,
                          appendWithSpacing(inv[p].targetContent, inv[p].mergedText))
    /\ inv' = [inv EXCEPT ![p].pc = "done"]
    /\ UNCHANGED call

(***************************************************************************)
(* The documents, references and requests the operations are run on.        *)
(***************************************************************************)
\* the lines the drawn source documents are made of: empty, blank, text,
\* indented text, separator
LineSet == {<<>>, <<" ">>, <<"a">>, <<" ", "b">>, <<"-", "-", "-">>}

\* "A\nB\n---\nC\nD\n"
DocAB ==
    <<"A", "\n", "B", "\n", "-", "-", "-", "\n", "C", "\n", "D", "\n">>

\* "Intro\n\n---\n\nBody line\n"
DocIntro ==
    <<"I", "n", "t", "r", "o", "\n", "\n", "-", "-", "-", "\n", "\n",
      "B", "o", "d", "y", " ", "l", "i", "n", "e", "\n">>

\* "a\r\n b\r\n": a document with CRLF line ends
DocCRLF == <<"a", "\r", "\n", " ", "b", "\r", "\n">>

\* " a\n\n***\nb\n \n___\n\nc": three sections, two of them closed by a
\* separator
DocThree ==
    <<" ", "a", "\n", "\n", "*", "*", "*", "\n", "b", "\n", " ", "\n",
      "_", "_", "_", "\n", "\n", "c">>

ExampleDocs == {DocAB, DocIntro, DocCRLF, DocThree}

LinesUpTo(lineSet, n) == UNION {[1..k -> lineSet] : k \in 1..n}

SourceDocs == {JoinLines[ls] : ls \in LinesUpTo(LineSet, MaxLines)} \cup ExampleDocs

EntryDate == <<"2", "0", "2", "4", "-", "0", "1", "-", "0", "1">>

\* the references a source is named by: an entry by its date, a note by its
\* path under notes/, and a blank reference
EntryRef == EntryDate
NoteRef == <<"n", "o", "t", "e", "s", "/", "n", "1", ".", "m", "d">>
BlankRef == <<" ">>

SourceRefs == {EntryRef, NoteRef, BlankRef}

\* the target slugs: a plain slug, the slug of the note n1 written as a
\* path, and a blank slug
SlugN2 == <<"n", "2">>
SlugN1 == <<"n", "o", "t", "e", "s", "/", "n", "1", ".", "M", "D">>
SlugBlank == <<" ">>

Slugs == {SlugN2, SlugN1, SlugBlank}

\* slugs that name a place outside the notes: "../2024-01-01", "../../o" and
\* the absolute path "/o/x"
SlugN3 == <<"n", "3">>
SlugUp == <<".", ".", "/">> \o EntryDate
SlugOut == <<".", ".", "/", ".", ".", "/", "o">>
SlugAbs == <<"/", "o", "/", "x">>

EntryPath == entryPathForDate[EntryDate]
NotePath1 == notePathForSlug[<<"n", "1">>]
NotePath2 == notePathForSlug[SlugN2]

\* what the note n2 holds before the call: the template, a text without a
\* final newline, a text with one, nothing
TargetDocs == {Template[SlugN2], <<"x">>, <<"x", "\n">>, <<>>}

\* the requests for sections, as lists of numbers and as texts
RequestLists ==
    {<<>>, <<1>>, <<2>>, <<3>>, <<0>>, <<1, 2>>, <<2, 1>>, <<1, 1>>, <<3, 1>>,
     <<2, 0, 2>>, <<4, 0>>, <<3, 2, 1>>, <<0 - 1, 1>>}

RequestTexts ==
    {<<"2", ",", "1">>, <<" ", "1", ",", ",", "x", " ", "1">>,
     <<"0", ",", "-", "1">>, <<",">>}

SectionRequests ==
    {[isText |-> FALSE, list |-> l, text |-> <<>>] : l \in RequestLists}
    \cup {[isText |-> TRUE, list |-> <<>>, text |-> t] : t \in RequestTexts}

\* a call that gets as far as the range check is drawn with every range
\* around the lines of its source, a call that fails before it with two
ReachesSource(source, slug) ==
    /\ resolveSource[source].kind # "unknown"
    /\ normalizeNoteSlug[slug] # <<>>
    /\ FileExists(files, resolveSourcePath[source].sourcePath)

RangesAround(n) == {r \in (0..(n + 1)) \X (0..(n + 1)) : r[2] >= r[1] - 1}

Ranges(source, slug) ==
    IF ReachesSource(source, slug)
    THEN RangesAround(Len(SplitLines[files[resolveSourcePath[source].sourcePath]]))
    ELSE {<<1, 1>>, <<0, 0>>}

Requests(source, slug) ==
    IF ReachesSource(source, slug)
    THEN SectionRequests
    ELSE {[isText |-> FALSE, list |-> l, text |-> <<>>] : l \in {<<1>>, <<>>}}

(***************************************************************************)
(* The store under extraction.                                              *)
(***************************************************************************)
Init ==
    /\ \E doc \in SourceDocs, sourcePath \in {EntryPath, NotePath1} :
          \E others \in {EmptyFiles}
                        \cup {WriteFile(EmptyFiles, NotePath2, t) : t \in TargetDocs} :
              files = WriteFile(others, sourcePath, doc)
    /\ inv = [p \in Procs |-> IF p = 1 THEN Idle ELSE Off]
    /\ call = NoCall

\* a call of extractToNote with drawn arguments
ExtractToNoteCall(p) ==
    /\ inv[p].pc = "idle"
    /\ \E source \in SourceRefs, slug \in Slugs :
          \E r \in Ranges(source, slug) :
              ExtractToNoteStart(p, source, r[1], r[2], slug)

\* a call of extractSectionsToNote with drawn arguments
ExtractSectionsCall(p) ==
    /\ inv[p].pc = "idle"
    /\ \E source \in SourceRefs, slug \in Slugs :
          \E sections \in Requests(source, slug) :
              ExtractSectionsStart(p, source, sections, slug)

Next ==
    \E p \in Procs :
        \/ ExtractToNoteCall(p)
        \/ ExtractToNoteWriteSource(p)
        \/ ExtractSectionsCall(p)
        \/ ExtractSectionsWriteSource(p)
        \/ EnsureTarget(p)
        \/ ReadTarget(p)
        \/ WriteTarget(p)

Spec == Init /\ [][Next]_vars

(***************************************************************************)
(* appendWithSpacing on its own: every short text over a letter, a blank    *)
(* and a newline as the existing content, a handful of additions.           *)
(***************************************************************************)
TextsUpTo(chars, n) == UNION {[1..k -> chars] : k \in 0..n}

ExistingTexts == TextsUpTo({"x", " ", "\n"}, MaxText)

Additions ==
    {<<"y">>, <<"y", "\n">>, <<"y", "\n", "z">>, <<" ", "y">>, <<"\n", "y">>, <<>>}

InitAppend ==
    /\ files = EmptyFiles
    /\ inv = [p \in Procs |-> Off]
    /\ \E existing \in ExistingTexts, addition \in Additions :
          call = [fn |-> "appendWithSpacing", args |-> <<existing, addition>>,
                  done |-> FALSE, ret |-> <<>>]

CallAppendWithSpacing ==
    /\ call.fn = "appendWithSpacing"
    /\ ~call.done
    /\ call' = [call EXCEPT !.done = TRUE,
                            !.ret = appendWithSpacing(call.args[1], call.args[2])]
    /\ UNCHANGED <<files, inv>>

NextAppend == CallAppendWithSpacing

SpecAppend == InitAppend /\ [][NextAppend]_vars

(***************************************************************************)
(* collectSections on its own: every document of a few lines drawn from     *)
(* blank lines, text, separators and lines that only look like separators.  *)
(***************************************************************************)
SectionLineSet ==
    {<<>>, <<" ">>, <<"a">>, <<" ", "b", " ">>, <<"-", "-", "-">>, <<"-", "-">>,
     <<" ", "*", " ", "*", "*">>, <<"-", "*", "-">>, <<"_", "_", "_", "_">>}

SectionDocs ==
    {JoinLines[ls] : ls \in LinesUpTo(SectionLineSet, MaxSectionLines)}
    \cup ExampleDocs

InitSections ==
    /\ files = EmptyFiles
    /\ inv = [p \in Procs |-> Off]
    /\ \E content \in SectionDocs :
          call = [fn |-> "collectSections", args |-> <<content>>,
                  done |-> FALSE, ret |-> <<>>]

CallCollectSections ==
    /\ call.fn = "collectSections"
    /\ ~call.done
    /\ call' = [call EXCEPT !.done = TRUE, !.ret = collectSections(call.args[1])]
    /\ UNCHANGED <<files, inv>>

NextSections == CallCollectSections

SpecSections == InitSections /\ [][NextSections]_vars

(***************************************************************************)
(* What the claims speak of, stated without the operators of the code.      *)
(***************************************************************************)
\* the invocation has passed its checks and has rewritten the source
WroteSource(rec) == rec.pc \in {"wrote", "ensured", "readTarget", "done"}

\* the invocation has ended and has appended to its target note
Appended(rec) == rec.pc = "done" /\ rec.mergedText # <<>>

\* the target note of the invocation is its source document
SelfTarget(rec) == rec.targetPath = rec.sourcePath

\* the failures section 4.5 of the specification names
SourceNotFound == {ErrMissingSource, ErrSourceNotFound}
NoSectionsSelected == {ErrNoSections, ErrNoMatchingSections}
ValidationFailures ==
    SourceNotFound \cup NoSectionsSelected \cup {ErrInvalidRange, ErrMissingSlug}

\* the slug a drawn target slug stands for
PlainSlug(slug) ==
    CASE slug = SlugN2 -> <<"n", "2">>
      [] slug = SlugN1 -> <<"n", "1">>
      [] slug \in {SlugN3, SlugUp, SlugOut, SlugAbs} -> slug
      [] OTHER -> <<>>

\* the leading white space of a line
Indent(line) ==
    SubSeq(line, 1,
           CHOOSE k \in 0..Len(line) :
               /\ \A j \in 1..k : line[j] \in WhiteSpace
               /\ k = Len(line) \/ line[k + 1] \notin WhiteSpace)

\* <indent>[<slug>](notes/<slug>.md)
LinkTo(indent, slug) ==
    indent \o <<"[">> \o slug \o <<"]", "(", "n", "o", "t", "e", "s", "/">> \o slug
    \o <<".", "m", "d", ")">>

\* L[1..s-1], the link line, L[e+1..n]
ExpectedRange(L, s, e, slug) ==
    [i \in 1..(Len(L) - (e - s)) |->
        IF i < s THEN L[i]
        ELSE IF i = s THEN LinkTo(Indent(L[s]), slug)
        ELSE L[i + (e - s)]]

\* the lines of the source file as it was when the invocation was called
SourceLinesBefore(rec) == SplitLines[rec.pre[rec.sourcePath]]

\* the text a text is a blank one
IsBlankText(t) == \A i \in 1..Len(t) : t[i] \in WhiteSpace

(***************************************************************************)
(* C1: when extractToNote or extractSectionsToNote fails with               *)
(* SourceNotFound, InvalidRange, MissingSlug or NoSectionsSelected, no file *)
(* has been written: every file holds what it held at the call, and no      *)
(* file has come into being (the target note included).                     *)
(***************************************************************************)
C1_NoWriteOnFailure ==
    \A p \in Procs :
        (inv[p].pc = "failed" /\ inv[p].error \in ValidationFailures)
            => files = inv[p].pre

\* a call that failed on its range while the target note does not exist
C1_Witness ==
    /\ inv[1].pc = "failed"
    /\ inv[1].error = ErrInvalidRange
    /\ inv[1].slug = SlugN2
    /\ ~FileExists(files, NotePath2)

(***************************************************************************)
(* C2: a successful extractToNote(source, s, e, slug) on a source of lines  *)
(* L[1..n] takes a range 1 <= s <= e <= n and writes to the source exactly  *)
(* L[1..s-1], the line <indent of L[s]>[slug](notes/slug.md), L[e+1..n];    *)
(* the payload is L[s..e]. That is what the source holds from the rewrite   *)
(* on, and at the end of the call too, unless the target note is the source *)
(* itself: then the backlink and the payload follow those lines.            *)
(***************************************************************************)
C2_RangeRewrite ==
    \A p \in Procs :
        (inv[p].op = "extractToNote" /\ WroteSource(inv[p])) =>
            LET rec == inv[p]
                L == SourceLinesBefore(rec)
                X == JoinLines[ExpectedRange(L, rec.startLine, rec.endLine,
                                             PlainSlug(rec.slug))]
                payload == JoinLines[SubSeq(L, rec.startLine, rec.endLine)]
            IN  /\ 1 <= rec.startLine
                /\ rec.startLine <= rec.endLine
                /\ rec.endLine <= Len(L)
                /\ IF Appended(rec) /\ SelfTarget(rec)
                   THEN StartsWith[files[rec.sourcePath], X] /\ files[rec.sourcePath] # X
                   ELSE files[rec.sourcePath] = X
                /\ IF IsBlankText(payload) THEN rec.mergedText = <<>>
                   ELSE EndsWith[rec.mergedText, <<"\n", "\n">> \o payload]

\* the statement of C2 without the exception: at the end of every successful
\* call the source holds exactly the lines before, the link line and the
\* lines after
C2_SourceAtEnd ==
    \A p \in Procs :
        (inv[p].op = "extractToNote" /\ inv[p].pc = "done") =>
            files[inv[p].sourcePath] =
                JoinLines[ExpectedRange(SourceLinesBefore(inv[p]), inv[p].startLine,
                                        inv[p].endLine, PlainSlug(inv[p].slug))]

\* the example of the specification: lines 1-2 of "A\nB\n---\nC\nD\n" are
\* moved to the note n2
C2_Witness ==
    /\ inv[1].op = "extractToNote"
    /\ inv[1].pc = "done"
    /\ inv[1].pre[inv[1].sourcePath] = DocAB
    /\ inv[1].startLine = 1
    /\ inv[1].endLine = 2
    /\ inv[1].slug = SlugN2
    /\ files[inv[1].sourcePath] =
           <<"[", "n", "2", "]", "(", "n", "o", "t", "e", "s", "/", "n", "2", ".",
             "m", "d", ")", "\n", "-", "-", "-", "\n", "C", "\n", "D", "\n">>

\* the sections of the source file as it was when the invocation was called
SectionsBefore(rec) == collectSections(rec.pre[rec.sourcePath])

\* the set of the requested indices that name a section
ValidRequested(rec) ==
    {Requested(rec.sections)[k] : k \in 1..Len(Requested(rec.sections))}
        \cap (1..Len(SectionsBefore(rec)))

\* every span [startLine, blockEndLine] of the sections V replaced at once by
\* the link line of its first line
ExpectedSections(L, secs, V, slug) ==
    LET Covered(i) ==
            \E v \in V : secs[v].startLine < i /\ i <= secs[v].blockEndLine
        IsStart(i) == \E v \in V : secs[v].startLine = i
        kept == SelectSeq([i \in 1..Len(L) |-> i], LAMBDA i : ~Covered(i))
    IN  [k \in 1..Len(kept) |->
            IF IsStart(kept[k]) THEN LinkTo(Indent(L[kept[k]]), slug)
            ELSE L[kept[k]]]

(***************************************************************************)
(* C3: a successful extractSectionsToNote writes to the source its lines    *)
(* with the span [startLine, blockEndLine] of every selected section        *)
(* replaced by one link line that keeps the indentation of the span's first *)
(* line, and every line outside the spans unchanged and in order: the       *)
(* splices made from the last span to the first amount to one replacement   *)
(* of all spans at once. That is what the source holds from the rewrite on, *)
(* and at the end of the call too, unless the target note is the source     *)
(* itself: then the backlink and the payload follow those lines.            *)
(***************************************************************************)
C3_SectionsRewrite ==
    \A p \in Procs :
        (inv[p].op = "extractSectionsToNote" /\ WroteSource(inv[p])) =>
            LET rec == inv[p]
                X == JoinLines[ExpectedSections(SourceLinesBefore(rec),
                                                SectionsBefore(rec),
                                                ValidRequested(rec),
                                                PlainSlug(rec.slug))]
            IN  /\ ValidRequested(rec) # {}
                /\ IF Appended(rec) /\ SelfTarget(rec)
                   THEN StartsWith[files[rec.sourcePath], X] /\ files[rec.sourcePath] # X
                   ELSE files[rec.sourcePath] = X

\* the statement of C3 without the exception
C3_SourceAtEnd ==
    \A p \in Procs :
        (inv[p].op = "extractSectionsToNote" /\ inv[p].pc = "done") =>
            files[inv[p].sourcePath] =
                JoinLines[ExpectedSections(SourceLinesBefore(inv[p]),
                                           SectionsBefore(inv[p]),
                                           ValidRequested(inv[p]),
                                           PlainSlug(inv[p].slug))]

\* the first and the third section of " a\n\n***\nb\n \n___\n\nc" are moved to
\* the note n2, asked for as 3, 1
C3_Witness ==
    /\ inv[1].op = "extractSectionsToNote"
    /\ inv[1].pc = "done"
    /\ inv[1].pre[inv[1].sourcePath] = DocThree
    /\ inv[1].sections = [isText |-> FALSE, list |-> <<3, 1>>, text |-> <<>>]
    /\ inv[1].slug = SlugN2
    /\ files[inv[1].sourcePath] =
           <<" ", "[", "n", "2", "]", "(", "n", "o", "t", "e", "s", "/", "n", "2",
             ".", "m", "d", ")", "\n", "b", "\n", " ", "\n", "_", "_", "_", "\n",
             "\n", "[", "n", "2", "]", "(", "n", "o", "t", "e", "s", "/", "n", "2",
             ".", "m", "d", ")">>

\* "# <slug>\ntags:\n\n"
StandardTemplate(slug) ==
    <<"#", " ">> \o slug \o <<"\n">> \o <<"t", "a", "g", "s", ":">> \o <<"\n", "\n">>

\* Source: [<label>](<path from the notes root to the source>) for the two
\* sources drawn
BacklinkOf(rec) ==
    CASE rec.source = EntryRef ->
             <<"S", "o", "u", "r", "c", "e", ":", " ", "[">> \o EntryDate
             \o <<"]", "(", ".", ".", "/">> \o EntryDate \o <<".", "m", "d", ")">>
      [] rec.source = NoteRef ->
             <<"S", "o", "u", "r", "c", "e", ":", " ", "[", "n", "1", "]", "(",
               "n", "1", ".", "m", "d", ")">>

\* zero newlines after a text that ends in an empty line (or is empty), one
\* after a text that ends in a newline, two otherwise
SpacingAfter(prefix) ==
    IF prefix = <<>> THEN <<>>
    ELSE IF Len(prefix) >= 2 /\ prefix[Len(prefix)] = "\n" /\ prefix[Len(prefix) - 1] = "\n"
    THEN <<>>
    ELSE IF prefix[Len(prefix)] = "\n" THEN <<"\n">>
    ELSE <<"\n", "\n">>

\* the indices of V in ascending order
Ascending(V, n) == SelectSeq([i \in 1..n |-> i], LAMBDA i : i \in V)

\* the payload of the invocation: the lines of the range, or the blocks of the
\* selected sections in the order of the document, a blank line between them
PayloadOf(rec) ==
    LET L == SourceLinesBefore(rec)
    IN  IF rec.op = "extractToNote"
        THEN JoinLines[SubSeq(L, rec.startLine, rec.endLine)]
        ELSE LET secs == SectionsBefore(rec)
                 order == Ascending(ValidRequested(rec), Len(secs))
             IN  JoinWith[[k \in 1..Len(order) |->
                              JoinLines[SubSeq(L, secs[order[k]].startLine,
                                               secs[order[k]].blockEndLine)]],
                          <<"\n", "\n">>]

\* the source as the claims C2 and C3 have it rewritten
RewrittenSource(rec) ==
    IF rec.op = "extractToNote"
    THEN JoinLines[ExpectedRange(SourceLinesBefore(rec), rec.startLine, rec.endLine,
                                 PlainSlug(rec.slug))]
    ELSE JoinLines[ExpectedSections(SourceLinesBefore(rec), SectionsBefore(rec),
                                    ValidRequested(rec), PlainSlug(rec.slug))]

\* what the target note held when the invocation was called, the standard
\* template if it did not exist
TargetBefore(rec) ==
    IF rec.targetPath \in DOMAIN rec.pre THEN rec.pre[rec.targetPath]
    ELSE StandardTemplate(PlainSlug(rec.slug))

\* prefix, spacing separator, backlink line, blank line, payload, and the
\* newline that ends the payload if it has none
TargetAfter(prefix, rec) ==
    prefix \o SpacingAfter(prefix) \o BacklinkOf(rec) \o <<"\n", "\n">> \o PayloadOf(rec)
    \o (IF PayloadOf(rec)[Len(PayloadOf(rec))] = "\n" THEN <<>> ELSE <<"\n">>)

(***************************************************************************)
(* C4: after a successful extraction with a non-blank payload the target    *)
(* note holds its previous content (the standard template if it has just    *)
(* been created; the rewritten source if the target is the source itself)   *)
(* as an unchanged prefix, then the spacing separator, one line             *)
(* Source: [<label>](<path from the notes root to the source>) whose label  *)
(* is the date of the entry or the basename of the note, one blank line and *)
(* the payload, ended by a newline. For extractSectionsToNote the payload   *)
(* is the blocks of the selected sections in the order of the document, a   *)
(* blank line between them, under the one backlink line.                    *)
(***************************************************************************)
C4_TargetAppended ==
    \A p \in Procs :
        Appended(inv[p]) =>
            files[inv[p].targetPath] =
                TargetAfter(IF SelfTarget(inv[p]) THEN RewrittenSource(inv[p])
                            ELSE TargetBefore(inv[p]),
                            inv[p])

\* the statement of C4 as it stands: the prefix is what the target note held
\* before the call
C4_PreviousContentIsPrefix ==
    \A p \in Procs :
        Appended(inv[p]) =>
            files[inv[p].targetPath] = TargetAfter(TargetBefore(inv[p]), inv[p])

\* the example of the specification: lines 1-2 of the entry "A\nB\n---\nC\nD\n"
\* arrive in the note n2, which did not exist
C4_Witness ==
    /\ inv[1].op = "extractToNote"
    /\ inv[1].pc = "done"
    /\ inv[1].source = EntryRef
    /\ inv[1].pre[inv[1].sourcePath] = DocAB
    /\ inv[1].startLine = 1
    /\ inv[1].endLine = 2
    /\ inv[1].slug = SlugN2
    /\ NotePath2 \notin DOMAIN inv[1].pre
    /\ files[NotePath2] =
           <<"#", " ", "n", "2", "\n", "t", "a", "g", "s", ":", "\n", "\n",
             "S", "o", "u", "r", "c", "e", ":", " ", "[", "2", "0", "2", "4", "-",
             "0", "1", "-", "0", "1", "]", "(", ".", ".", "/", "2", "0", "2", "4",
             "-", "0", "1", "-", "0", "1", ".", "m", "d", ")", "\n", "\n",
             "A", "\n", "B", "\n">>

(***************************************************************************)
(* C5: when extractToNote succeeds with a payload that is entirely blank,   *)
(* the target note exists afterwards, created with the standard template if *)
(* it was absent, and nothing is appended to it.                            *)
(***************************************************************************)
C5_BlankPayloadCreatesTarget ==
    \A p \in Procs :
        (/\ inv[p].op = "extractToNote"
         /\ inv[p].pc = "done"
         /\ IsBlankText(PayloadOf(inv[p]))) =>
            /\ FileExists(files, inv[p].targetPath)
            /\ ~SelfTarget(inv[p]) => files[inv[p].targetPath] = TargetBefore(inv[p])

\* the file system a successful extractSectionsToNote leaves behind when it
\* is asked for the sections V by the list of their indices in ascending order
OutcomeOfSet(rec, V) ==
    LET L == SourceLinesBefore(rec)
        secs == SectionsBefore(rec)
        selected == SelectSections(secs, Ascending(V, Len(secs)))
        rewritten == WriteFile(rec.pre, rec.sourcePath,
                               JoinLines[SectionsRewrite(L, selected, rec.targetSlug)])
        ensured == ensureFileExists(rewritten, rec.targetPath, rec.targetSlug)
    IN  WriteFile(ensured, rec.targetPath,
                  appendWithSpacing(ensured[rec.targetPath],
                                    MergedText(SourceLinkLineOf(rec),
                                               ExtractedSectionsText(L, selected))))

(***************************************************************************)
(* C6: extractSectionsToNote depends only on the set of the requested       *)
(* indices that lie in 1..sectionCount. When the set is empty (nothing      *)
(* requested, or nothing in range) the call fails with NoSectionsSelected;  *)
(* otherwise it succeeds, and the source and the target it leaves behind    *)
(* are those of the request that lists the set in ascending order, whatever *)
(* duplicates, order and out-of-range indices the request had.              *)
(***************************************************************************)
C6_OnlyTheValidSet ==
    \A p \in Procs :
        LET rec == inv[p]
        IN  /\ (rec.op = "extractSectionsToNote" /\ WroteSource(rec)) =>
                   ValidRequested(rec) # {}
            /\ (/\ rec.op = "extractSectionsToNote"
                /\ rec.pc = "failed"
                /\ rec.error \in NoSectionsSelected) =>
                   /\ ValidRequested(rec) = {}
                   /\ files = rec.pre
            /\ (rec.op = "extractSectionsToNote" /\ rec.pc = "done") =>
                   files = OutcomeOfSet(rec, ValidRequested(rec))

\* a request with a duplicate and an index out of range has moved the second
\* section of a document
C6_Witness ==
    /\ inv[1].op = "extractSectionsToNote"
    /\ inv[1].pc = "done"
    /\ inv[1].sections = [isText |-> FALSE, list |-> <<2, 0, 2>>, text |-> <<>>]
    /\ ValidRequested(inv[1]) = {2}

\* the number of text lines of a document: its newline-terminated lines, and
\* the line after the last newline if there is one
LineCount(content) ==
    Len(SplitLines[content])
    - (IF content = <<>> \/ content[Len(content)] = "\n" THEN 1 ELSE 0)

(***************************************************************************)
(* C7: extractToNote succeeds only when                                     *)
(* 1 <= startLine <= endLine <= lineCount(source) and fails with            *)
(* InvalidRange otherwise, lineCount being the number of text lines of the  *)
(* document: for a source of N newline-terminated lines every endLine > N   *)
(* is rejected, and the source keeps its terminating newline after a        *)
(* successful extraction.                                                   *)
(***************************************************************************)
C7_RangeWithinTextLines ==
    \A p \in Procs :
        LET rec == inv[p]
            before == rec.pre[rec.sourcePath]
        IN  /\ (rec.op = "extractToNote" /\ WroteSource(rec)) =>
                   /\ 1 <= rec.startLine
                   /\ rec.startLine <= rec.endLine
                   /\ rec.endLine <= LineCount(before)
                   /\ (before # <<>> /\ before[Len(before)] = "\n") =>
                          files[rec.sourcePath][Len(files[rec.sourcePath])] = "\n"
            /\ (/\ rec.op = "extractToNote"
                /\ rec.pc = "failed"
                /\ rec.error = ErrInvalidRange) =>
                   ~(/\ 1 <= rec.startLine
                     /\ rec.startLine <= rec.endLine
                     /\ rec.endLine <= LineCount(before))

\* the lines of the result of appendWithSpacing that end before the addition
\* begins
LinesBeforeAddition(ret, addition) ==
    LET tail == IF addition # <<>> /\ addition[Len(addition)] = "\n"
                THEN Len(addition) ELSE Len(addition) + 1
        head == SplitLines[SubSeq(ret, 1, Len(ret) - tail)]
    IN  SubSeq(head, 1, Len(head) - 1)

\* the number of blank lines a list of lines ends with
TrailingBlankLines(lines) ==
    CHOOSE k \in 0..Len(lines) :
        /\ \A j \in (Len(lines) - k + 1)..Len(lines) : IsBlankText(lines[j])
        /\ k = Len(lines) \/ ~IsBlankText(lines[Len(lines) - k])

(***************************************************************************)
(* C10: appendWithSpacing(existing, addition) keeps existing as a prefix    *)
(* and leaves at most one blank line between the last non-blank line of     *)
(* existing and the first line of addition, whatever newlines or white      *)
(* space existing ends with.                                                *)
(***************************************************************************)
C10_AtMostOneBlankLine ==
    (call.fn = "appendWithSpacing" /\ call.done) =>
        /\ StartsWith[call.ret, call.args[1]]
        /\ TrailingBlankLines(LinesBeforeAddition(call.ret, call.args[2])) <= 1

(***************************************************************************)
(* C8: the list collectSections returns for a document has the indices      *)
(* 1..k in the order of the document; every section has                     *)
(* 1 <= startLine <= endLine <= blockEndLine <= lineCount; and              *)
(* blockEndLine(i) < startLine(i+1) for consecutive sections, so the spans  *)
(* [startLine, blockEndLine] do not overlap and follow the order of the     *)
(* lines.                                                                   *)
(***************************************************************************)
C8_SectionsOrdered ==
    (call.fn = "collectSections" /\ call.done) =>
        LET secs == call.ret
        IN  /\ \A i \in 1..Len(secs) :
                  /\ secs[i].index = i
                  /\ 1 <= secs[i].startLine
                  /\ secs[i].startLine <= secs[i].endLine
                  /\ secs[i].endLine <= secs[i].blockEndLine
                  /\ secs[i].blockEndLine <= LineCount(call.args[1])
            /\ \A i \in 1..(Len(secs) - 1) :
                  secs[i].blockEndLine < secs[i + 1].startLine

\* a document of two sections or more whose first block goes on after the
\* section up to its separator
C8_Witness ==
    /\ call.fn = "collectSections"
    /\ call.done
    /\ Len(call.ret) >= 2
    /\ call.ret[1].blockEndLine > call.ret[1].endLine + 1

\* a line of three characters or more, all of them the same one of - * _,
\* white space not counted
IsRule(line) ==
    \E c \in {"-", "*", "_"} :
        /\ \A i \in 1..Len(line) : line[i] \in WhiteSpace \cup {c}
        /\ Cardinality({i \in 1..Len(line) : line[i] = c}) >= 3

\* a line without its leading and trailing white space
Trimmed(line) ==
    IF IsBlankText(line) THEN <<>>
    ELSE SubSeq(line,
                CHOOSE a \in 1..Len(line) :
                    line[a] \notin WhiteSpace /\ \A j \in 1..(a - 1) : line[j] \in WhiteSpace,
                CHOOSE b \in 1..Len(line) :
                    line[b] \notin WhiteSpace
                    /\ \A j \in (b + 1)..Len(line) : line[j] \in WhiteSpace)

\* the numbers of the lines that are neither blank nor separators
ContentLines(lines) ==
    {n \in 1..Len(lines) : ~IsBlankText(lines[n]) /\ ~IsRule(lines[n])}

(***************************************************************************)
(* C9: collectSections partitions the lines of the content: every line that *)
(* is neither blank nor a separator lies in [startLine, endLine] of exactly *)
(* one section; no separator lies in any [startLine, endLine]; the first    *)
(* and the last line of each [startLine, endLine] are not blank and the     *)
(* title is the trimmed first line. So a document without separators has at *)
(* most one section, from its first to its last non-blank line; a document  *)
(* of blank lines and separators only has none; and                         *)
(* "Intro\n\n---\n\nBody line\n" has the two sections "Intro" and           *)
(* "Body line".                                                             *)
(***************************************************************************)
C9_SectionsPartition ==
    (call.fn = "collectSections" /\ call.done) =>
        LET secs == call.ret
            lines == SplitLines[call.args[1]]
            Within(n, i) == secs[i].startLine <= n /\ n <= secs[i].endLine
        IN  /\ \A n \in ContentLines(lines) :
                  Cardinality({i \in 1..Len(secs) : Within(n, i)}) = 1
            /\ \A n \in 1..Len(lines) :
                  IsRule(lines[n]) => \A i \in 1..Len(secs) : ~Within(n, i)
            /\ \A i \in 1..Len(secs) :
                  /\ secs[i].startLine \in 1..Len(lines)
                  /\ secs[i].endLine \in 1..Len(lines)
                  /\ ~IsBlankText(lines[secs[i].startLine])
                  /\ ~IsBlankText(lines[secs[i].endLine])
                  /\ secs[i].title = Trimmed(lines[secs[i].startLine])
            /\ (\A n \in 1..Len(lines) : ~IsRule(lines[n])) =>
                  /\ Len(secs) <= 1
                  /\ Len(secs) = 1 =>
                        /\ \A n \in ContentLines(lines) : secs[1].startLine <= n
                        /\ \A n \in ContentLines(lines) : n <= secs[1].endLine
            /\ ContentLines(lines) = {} => secs = <<>>
            /\ call.args[1] = DocIntro =>
                  /\ Len(secs) = 2
                  /\ secs[1].title = <<"I", "n", "t", "r", "o">>
                  /\ secs[2].title = <<"B", "o", "d", "y", " ", "l", "i", "n", "e">>

\* the sections of the example "Intro\n\n---\n\nBody line\n"
C9_Witness ==
    /\ call.fn = "collectSections"
    /\ call.done
    /\ call.args[1] = DocIntro
    /\ Len(call.ret) = 2
    /\ call.ret[1].startLine = 1
    /\ call.ret[1].endLine = 1
    /\ call.ret[2].startLine = 5
    /\ call.ret[2].endLine = 5

(***************************************************************************)
(* Tags: normalizeTag, readSecondLine, fileHasTag.                          *)
(***************************************************************************)
\* a bound of the model: greatest number of lines of a drawn tagged document
MaxTagLines == 3

\* [A-Za-z0-9_-]
TagChars ==
    {UpperLetters[i] : i \in 1..Len(UpperLetters)}
    \cup {LowerLetters[i] : i \in 1..Len(LowerLetters)}
    \cup Digits \cup {"_", "-"}

\* a normalization that would keep the case of the letters
normalizeTagKeepingCase(value) == SelectSeq(value, LAMBDA c : c \in TagChars)

\* value.replace(/[^A-Za-z0-9_-]/g, "").toLowerCase()
normalizeTag(value) == ToLowerCase[SelectSeq(value, LAMBDA c : c \in TagChars)]

\* a reading that would take the whole document for its second line
readEveryLine(content) == JoinWith[SplitLines[content], <<" ">>]

\* content.split(/\r?\n/)[1] ?? ""
readSecondLine(content) ==
    IF Len(SplitLines[content]) >= 2 THEN SplitLines[content][2] ELSE <<>>

\* the longest run of tag characters of line from position i on
TagRun[line \in Text, i \in Nat] ==
    IF i <= Len(line) /\ line[i] \in TagChars
    THEN <<line[i]>> \o TagRun[line, i + 1]
    ELSE <<>>

\* line.match(/#[A-Za-z0-9_-]+/g) ?? [], from position i on
HashtagsFrom[line \in Text, i \in Nat] ==
    IF i > Len(line) THEN <<>>
    ELSE IF line[i] = "#" /\ TagRun[line, i + 1] # <<>>
    THEN <<(<<"#">> \o TagRun[line, i + 1])>>
         \o HashtagsFrom[line, i + 1 + Len(TagRun[line, i + 1])]
    ELSE HashtagsFrom[line, i + 1]

\* what follows the word tags in a line that begins with it, white space
\* before it and the case of its letters set aside; the line itself otherwise
AfterTagsWord[line \in Text] ==
    IF StartsWith[ToLowerCase[TrimStart[line]], <<"t", "a", "g", "s">>]
    THEN TrimStart[SubSeq(TrimStart[line], 5, Len(TrimStart[line]))]
    ELSE line

\* /^\s*tags\s*:/i.test(line)
HasTagsPrefix[line \in Text] ==
    /\ StartsWith[ToLowerCase[TrimStart[line]], <<"t", "a", "g", "s">>]
    /\ StartsWith[AfterTagsWord[line], <<":">>]

\* line.replace(/^\s*tags\s*:\s*/i, "")
StripTagsPrefix[line \in Text] ==
    IF HasTagsPrefix[line] THEN TrimStart[Tail(AfterTagsWord[line])] ELSE line

\* stripped.replace(/[\[\],]/g, " ")
CleanList[stripped \in Text] ==
    [i \in 1..Len(stripped) |->
        IF stripped[i] \in {"[", "]", ","} THEN " " ELSE stripped[i]]

\* cleaned.split(/\s+/).filter(Boolean), from position i on
WordsFrom[cleaned \in Text, i \in Nat, cur \in Text] ==
    IF i > Len(cleaned) THEN (IF cur = <<>> THEN <<>> ELSE <<cur>>)
    ELSE IF cleaned[i] \in WhiteSpace
    THEN (IF cur = <<>> THEN <<>> ELSE <<cur>>) \o WordsFrom[cleaned, i + 1, <<>>]
    ELSE WordsFrom[cleaned, i + 1, Append(cur, cleaned[i])]

\* the parts of the tags: list of a line, none for a line without one
TagListParts[line \in Text] ==
    IF HasTagsPrefix[line]
    THEN WordsFrom[CleanList[StripTagsPrefix[line]], 1, <<>>]
    ELSE <<>>

\* the two loops of fileHasTag over the second line
LineHasTag(line, normalizedWant) ==
    \/ \E i \in 1..Len(HashtagsFrom[line, 1]) :
          normalizeTag(Tail(HashtagsFrom[line, 1][i])) = normalizedWant
    \/ \E i \in 1..Len(TagListParts[line]) :
          normalizeTag(TagListParts[line][i]) = normalizedWant

\* fileHasTag(filePath, want) on the file system fs: whether the read
\* failed, and the value returned otherwise
fileHasTag(fs, filePath, want) ==
    IF normalizeTag(want) = <<>> THEN [failed |-> FALSE, value |-> FALSE]
    ELSE IF ~FileExists(fs, filePath) THEN [failed |-> TRUE, value |-> FALSE]
    ELSE [failed |-> FALSE,
          value |-> LineHasTag(readSecondLine(fs[filePath]), normalizeTag(want))]

(***************************************************************************)
(* fileHasTag on its own: documents of a few lines, with hashtags and       *)
(* tags: lists on any of them, and a handful of wanted tags.                *)
(***************************************************************************)
TagLineSet ==
    {<<>>,
     <<"t", "a", "g", "s", ":", " ", "a", "i", ",", " ", "w", "o", "r", "k">>,
     <<"#", "a", "i">>,
     <<" ", "T", "A", "G", "S", " ", ":", "[", "A", "I", ",", "b", "-", "1", "]">>,
     <<"x", " ", "#", "Y", ".", "z", " ", "#", "#", "w">>,
     <<"t", "a", "g", "s">>,
     <<"x", " ", "t", "a", "g", "s", ":", " ", "a", "i">>,
     <<"t", "a", "g", "s", ":", "#", "a", "#", "b", " ", "c", ".", "d", " ", "!">>}

\* "# 2024-01-01\ntags: ai, work\n\nHello\n"
DocTagged ==
    <<"#", " ">> \o <<"2", "0", "2", "4", "-", "0", "1", "-", "0", "1">> \o <<"\n">>
    \o <<"t", "a", "g", "s", ":", " ", "a", "i", ",", " ", "w", "o", "r", "k">>
    \o <<"\n", "\n", "H", "e", "l", "l", "o", "\n">>

TagDocs ==
    {JoinLines[ls] : ls \in UNION {[1..k -> TagLineSet] : k \in 1..MaxTagLines}}
    \cup {DocTagged}

Wants ==
    {<<"A", "I">>, <<"a", "i">>, <<>>, <<"#", "!">>, <<"y">>, <<"a", "b">>,
     <<"b", "-", "1">>, <<"t", "a", "g", "s">>}

\* the path of the document fileHasTag is applied to
TaggedPath ==
    PathJoin[<<"/", "h", "/", "j", "o", "u", "r", "n", "a", "l">>,
             <<"2", "0", "2", "4", "-", "0", "1", "-", "0", "1", ".", "m", "d">>]

InitTags ==
    /\ inv = [p \in Procs |-> Off]
    /\ \E doc \in TagDocs, want \in Wants :
          /\ files = [path \in {TaggedPath} |-> doc]
          /\ call = [fn |-> "fileHasTag", args |-> <<TaggedPath, want>>,
                     done |-> FALSE, ret |-> [failed |-> FALSE, value |-> FALSE]]

CallFileHasTag ==
    /\ call.fn = "fileHasTag"
    /\ ~call.done
    /\ call' = [call EXCEPT !.done = TRUE,
                            !.ret = fileHasTag(files, call.args[1], call.args[2])]
    /\ UNCHANGED <<files, inv>>

NextTags == CallFileHasTag

SpecTags == InitTags /\ [][NextTags]_vars

\* the second line of a document, the empty text if it has none
SecondLineOf(doc) ==
    IF Len(SplitLines[doc]) >= 2 THEN SplitLines[doc][2] ELSE <<>>

(***************************************************************************)
(* C11: fileHasTag(doc, t) depends only on line 2 of doc: it returns what   *)
(* it returns for the document made of an empty first line and that second  *)
(* line alone, so any two documents with equal second lines give the same   *)
(* result for every t, whatever line 1 and the lines from 3 on hold; and a  *)
(* document of fewer than two lines has no tags.                            *)
(***************************************************************************)
C11_OnlyLineTwo ==
    (call.fn = "fileHasTag" /\ call.done) =>
        LET doc == files[call.args[1]]
            alone == [path \in {call.args[1]} |-> <<"\n">> \o SecondLineOf(doc)]
        IN  /\ ~call.ret.failed
            /\ call.ret = fileHasTag(alone, call.args[1], call.args[2])
            /\ Len(SplitLines[doc]) < 2 => ~call.ret.value

\* "#ai\nx #Y.z ##w\n#ai" does not have the tag ai of its first and third line
C11_Witness ==
    /\ call.fn = "fileHasTag"
    /\ call.done
    /\ files[call.args[1]] =
           <<"#", "a", "i", "\n", "x", " ", "#", "Y", ".", "z", " ", "#", "#", "w",
             "\n", "#", "a", "i">>
    /\ call.args[2] = <<"a", "i">>
    /\ ~call.ret.value

\* a text without the characters outside [A-Za-z0-9_-], in lower case
Normalized(t) ==
    LET kept == SelectSeq(t, LAMBDA c : c \in TagChars)
    IN  [i \in 1..Len(kept) |->
            IF \E k \in 1..26 : UpperLetters[k] = kept[i]
            THEN LowerLetters[CHOOSE k \in 1..26 : UpperLetters[k] = kept[i]]
            ELSE kept[i]]

\* the maximal runs of characters of t from position 1 on that satisfy Keep,
\* as pairs of their first and last position
MaximalRuns(t, Keep(_)) ==
    {r \in (1..Len(t)) \X (1..Len(t)) :
        /\ r[1] <= r[2]
        /\ \A k \in r[1]..r[2] : Keep(t[k])
        /\ r[1] = 1 \/ ~Keep(t[r[1] - 1])
        /\ r[2] = Len(t) \/ ~Keep(t[r[2] + 1])}

\* the normalized #tag runs of a line
HashRuns(line) ==
    {Normalized(SubSeq(line, r[1], r[2])) :
        r \in {q \in MaximalRuns(line, LAMBDA c : c \in TagChars) :
                  q[1] > 1 /\ line[q[1] - 1] = "#"}}

\* the positions of the colon of a line that begins, after white space and in
\* any case, with tags, white space and a colon: one position or none
TagsColon(line) ==
    {m \in 1..Len(line) :
        /\ line[m] = ":"
        /\ \E k \in 0..(m - 5) :
              /\ \A j \in 1..k : line[j] \in WhiteSpace
              /\ Normalized(SubSeq(line, k + 1, k + 4)) = <<"t", "a", "g", "s">>
              /\ \A j \in (k + 1)..(k + 4) : line[j] \in TagChars
              /\ \A j \in (k + 5)..(m - 1) : line[j] \in WhiteSpace}

\* the normalized tokens of the tags: list of a line, split on commas,
\* brackets and white space
ListTokens(line) ==
    UNION {LET rest == SubSeq(line, m + 1, Len(line))
           IN  {Normalized(SubSeq(rest, r[1], r[2])) :
                   r \in MaximalRuns(rest,
                             LAMBDA c : c \notin WhiteSpace \cup {"[", "]", ","})}
           : m \in TagsColon(line)}

(***************************************************************************)
(* C12: fileHasTag(doc, want) is true exactly when normalizeTag(want) is    *)
(* not empty and is one of the normalized #tag runs of line 2 or one of the *)
(* normalized tokens of a tags: list on line 2, split on commas, brackets   *)
(* and white space; so the case of the letters does not matter, and a want  *)
(* that normalizes to nothing gives false.                                  *)
(***************************************************************************)
C12_HasTagExactly ==
    (call.fn = "fileHasTag" /\ call.done) =>
        LET line == SecondLineOf(files[call.args[1]])
            want == Normalized(call.args[2])
        IN  call.ret.value =
                (want # <<>> /\ want \in HashRuns(line) \cup ListTokens(line))

\* the example of the specification: line 2 "tags: ai, work" has the tag AI
C12_Witness ==
    /\ call.fn = "fileHasTag"
    /\ call.done
    /\ files[call.args[1]] = DocTagged
    /\ call.args[2] = <<"A", "I">>
    /\ call.ret.value

(***************************************************************************)
(* The scan of the store: walkMarkdownFiles, listEntryFiles, listTags,      *)
(* listNoteSlugs.                                                           *)
(***************************************************************************)
\* the characters of the drawn texts in the order of their code units
CodeOrder ==
    <<"\t", "\n", "\r", " ", "!", "#", "(", ")", "*", ",", "-", ".", "/">>
    \o <<"0", "1", "2", "3", "4", "5", "6", "7", "8", "9", ":">>
    \o UpperLetters \o <<"[", "\\", "]", "_">> \o LowerLetters

CharRank[c \in STRING] == CHOOSE i \in 1..Len(CodeOrder) : CodeOrder[i] = c

\* a < b in the order Array.prototype.sort() gives strings
TextLess[a \in Text, b \in Text] ==
    IF b = <<>> THEN FALSE
    ELSE IF a = <<>> THEN TRUE
    ELSE IF Head(a) # Head(b) THEN CharRank[Head(a)] < CharRank[Head(b)]
    ELSE TextLess[Tail(a), Tail(b)]

InsertText[sorted \in TextList, x \in Text] ==
    IF sorted = <<>> THEN <<x>>
    ELSE IF TextLess[x, Head(sorted)] THEN <<x>> \o sorted
    ELSE <<Head(sorted)>> \o InsertText[Tail(sorted), x]

\* list.sort()
SortTexts[list \in TextList] ==
    IF list = <<>> THEN <<>>
    ELSE InsertText[SortTexts[SubSeq(list, 1, Len(list) - 1)], list[Len(list)]]

\* list.reverse()
ReverseTexts[list \in TextList] ==
    [i \in 1..Len(list) |-> list[Len(list) + 1 - i]]

\* the elements of a finite set of texts as a list
ListOf[S \in SUBSET Text] ==
    IF S = {} THEN <<>>
    ELSE InsertText[ListOf[S \ {CHOOSE x \in S : TRUE}], CHOOSE x \in S : TRUE]

\* whether the walk from rootDir reaches the file at filePath: the file lies
\* under rootDir, none of the directories between them is excluded, and its
\* name ends with ".md"
WalkReaches(rootDir, excludeDir, filePath) ==
    \E root \in {PathSegments[rootDir]}, segs \in {PathSegments[filePath]} :
        /\ Len(segs) > Len(root)
        /\ SubSeq(segs, 1, Len(root)) = root
        /\ \A i \in (Len(root) + 1)..(Len(segs) - 1) : segs[i] \notin excludeDir
        /\ EndsWith[segs[Len(segs)], MdExt]

\* walkMarkdownFiles(rootDir, excludeDir) on the file system fs, as the set
\* of the paths it collects
walkMarkdownFiles(fs, rootDir, excludeDir) ==
    {filePath \in DOMAIN fs : WalkReaches(rootDir, excludeDir, filePath)}

\* a list of entries that would take the notes in
listEntryFilesWithNotes(fs) ==
    ReverseTexts[SortTexts[ListOf[walkMarkdownFiles(fs, JournalDir, {})]]]

\* listEntryFiles() without a tag
listEntryFiles(fs) ==
    ReverseTexts[SortTexts[ListOf[
        walkMarkdownFiles(fs, JournalDir, {<<"n", "o", "t", "e", "s">>})]]]

\* the tags listTags adds to its set for one line
TagsOfLine(line) ==
    {normalizeTag(Tail(HashtagsFrom[line, 1][i])) :
        i \in 1..Len(HashtagsFrom[line, 1])}
    \cup ({normalizeTag(TagListParts[line][i]) : i \in 1..Len(TagListParts[line])}
          \ {<<>>})

\* listTags()
listTags(fs) ==
    SortTexts[ListOf[
        UNION {TagsOfLine(readSecondLine(fs[listEntryFiles(fs)[i]])) :
                  i \in 1..Len(listEntryFiles(fs))}]]

\* listNoteSlugs()
listNoteSlugs(fs) ==
    LET found == ListOf[walkMarkdownFiles(fs, NotesDir, {})]
    IN  SortTexts[[i \in 1..Len(found) |-> PathBasename[found[i], MdExt]]]

(***************************************************************************)
(* listTags and listNoteSlugs on their own: stores with entries at the      *)
(* journal root and in a folder, notes at the notes root and in a folder, a *)
(* folder named notes further down, and a file that is no Markdown file.    *)
(***************************************************************************)
EntryInFolder == PathJoin[JournalDir, <<"s", "u", "b", "/", "a", ".", "m", "d">>]
NoteInFolder == PathJoin[NotesDir, <<"a", "/", "b", ".", "m", "d">>]
NoteFurtherDown ==
    PathJoin[JournalDir,
             <<"s", "u", "b", "/", "n", "o", "t", "e", "s", "/", "c", ".", "m", "d">>]
TextFile == PathJoin[JournalDir, <<"x", ".", "t", "x", "t">>]

StorePaths == {EntryPath, EntryInFolder, NotePath1, NoteInFolder, NoteFurtherDown, TextFile}

\* "x\n#b #AI"
StoreDocs2 == <<"x", "\n", "#", "b", " ", "#", "A", "I">>
\* "#zz\n\ntags: q"
StoreDocs3 == <<"#", "z", "z", "\n", "\n", "t", "a", "g", "s", ":", " ", "q">>
StoreDocs == {DocTagged, StoreDocs2, StoreDocs3}

\* every store over these paths; what is on line 1 and line 3 matters in an
\* entry only
Stores ==
    {fs \in UNION {[present -> StoreDocs] : present \in SUBSET StorePaths} :
        \A p \in DOMAIN fs \ {EntryPath, EntryInFolder} : fs[p] # StoreDocs3}

InitLists ==
    /\ inv = [p \in Procs |-> Off]
    /\ files \in Stores
    /\ \E fn \in {"listTags", "listNoteSlugs"} :
          call = [fn |-> fn, args |-> <<>>, done |-> FALSE, ret |-> <<>>]

CallListTags ==
    /\ call.fn = "listTags"
    /\ ~call.done
    /\ call' = [call EXCEPT !.done = TRUE, !.ret = listTags(files)]
    /\ UNCHANGED <<files, inv>>

CallListNoteSlugs ==
    /\ call.fn = "listNoteSlugs"
    /\ ~call.done
    /\ call' = [call EXCEPT !.done = TRUE, !.ret = listNoteSlugs(files)]
    /\ UNCHANGED <<files, inv>>

NextLists == CallListTags \/ CallListNoteSlugs

SpecLists == InitLists /\ [][NextLists]_vars

(***************************************************************************)
(* Claims about the lists.                                                  *)
(***************************************************************************)
\* the entry files of the store: Markdown files under the journal root with
\* no folder named notes above them
EntryFiles ==
    {e \in DOMAIN files :
        /\ StartsWith[e, JournalDir \o <<"/">>]
        /\ EndsWith[e, MdExt]
        /\ \A i \in 1..(Len(PathSegments[e]) - 1) :
              i > Len(PathSegments[JournalDir])
                  => PathSegments[e][i] # <<"n", "o", "t", "e", "s">>}

\* the tags of the documents of the stores, one the documents hold on no
\* second line, and one they do not hold
TagCandidates ==
    {<<"a", "i">>, <<"w", "o", "r", "k">>, <<"b">>, <<"z", "z">>, <<"q">>, <<"x">>}

SomeEntryHasTag(t) == \E e \in EntryFiles : fileHasTag(files, e, t).value

ListedTags == call.fn = "listTags" /\ call.done

\* C13: listTags() returns, in strictly ascending order and with no empty
\* string, exactly the tags that fileHasTag finds in some entry file (a
\* Markdown file under the journal root with no folder named notes above it);
\* a tag met only in notes is not listed.
C13_ListTags ==
    ListedTags =>
        /\ \A i \in 1..Len(call.ret) :
              call.ret[i] # <<>> /\ SomeEntryHasTag(call.ret[i])
        /\ \A t \in TagCandidates :
              SomeEntryHasTag(t) => \E i \in 1..Len(call.ret) : call.ret[i] = t
        /\ \A i \in 1..(Len(call.ret) - 1) : TextLess[call.ret[i], call.ret[i + 1]]

\* an entry with "#b #AI", notes tagged "ai, work" at the notes root and below
\* a folder named notes further down: b and ai are listed, work is not
C13_Witness ==
    /\ ListedTags
    /\ EntryPath \in DOMAIN files
    /\ files[EntryPath] = StoreDocs2
    /\ EntryInFolder \notin DOMAIN files
    /\ NotePath1 \in DOMAIN files
    /\ files[NotePath1] = DocTagged
    /\ NoteFurtherDown \in DOMAIN files
    /\ files[NoteFurtherDown] = DocTagged
    /\ call.ret = <<<<"a", "i">>, <<"b">>>>

ListedNoteSlugs == call.fn = "listNoteSlugs" /\ call.done

\* the path of a note below the notes root, without the extension
SlugRelativeToNotesRoot(filePath) ==
    SubSeq(filePath, Len(NotesDir) + 2, Len(filePath) - Len(MdExt))

\* C14: listNoteSlugs() returns one slug for each Markdown file under the
\* notes root, the file's path below the notes root without ".md", so that
\* notePathForSlug of a listed slug is a file of the walk.
C14_SlugsRelativeToNotesRoot ==
    ListedNoteSlugs =>
        /\ {call.ret[i] : i \in 1..Len(call.ret)}
              = {SlugRelativeToNotesRoot(f) : f \in walkMarkdownFiles(files, NotesDir, {})}
        /\ \A i \in 1..Len(call.ret) : notePathForSlug[call.ret[i]] \in DOMAIN files

(***************************************************************************)
(* resolveSource and resolveSourcePath on their own, over references made   *)
(* of a place, a name and an extension.                                     *)
(***************************************************************************)
RefPlaces ==
    {<<>>,
     <<" ">>,
     NotesPrefix,
     NotesDir \o <<"/">>,
     JournalDir \o <<"/">>,
     JournalDir \o <<"/", "s", "u", "b", "/">>,
     NotesDir \o <<"/", ".", ".", "/">>,
     <<"/", "o", "/">>}

RefNames == {<<>>, EntryDate, <<"n", "1">>, <<"a", "/", "b">>, <<".", ".", "x">>}

RefExts == {<<>>, MdExt, <<".", "M", "D">>, <<" ">>}

References == {place \o name \o ext : place \in RefPlaces, name \in RefNames, ext \in RefExts}

\* what resolveSourcePath returns: null, or the path and the resolved source
NullPath == [null |-> TRUE]

InitResolve ==
    /\ files = EmptyFiles
    /\ inv = [p \in Procs |-> Off]
    /\ \E fn \in {"resolveSource", "resolveSourcePath"}, source \in References :
          call = [fn |-> fn, args |-> <<source>>, done |-> FALSE, ret |-> <<>>]

CallResolveSource ==
    /\ call.fn = "resolveSource"
    /\ ~call.done
    /\ call' = [call EXCEPT !.done = TRUE, !.ret = resolveSource[call.args[1]]]
    /\ UNCHANGED <<files, inv>>

CallResolveSourcePath ==
    /\ call.fn = "resolveSourcePath"
    /\ ~call.done
    /\ call' = [call EXCEPT
                   !.done = TRUE,
                   !.ret = IF resolveSource[call.args[1]].kind = "unknown"
                           THEN NullPath
                           ELSE [null |-> FALSE] @@ resolveSourcePath[call.args[1]]]
    /\ UNCHANGED <<files, inv>>

NextResolve == CallResolveSource \/ CallResolveSourcePath

SpecResolve == InitResolve /\ [][NextResolve]_vars

(***************************************************************************)
(* Claims about the resolution of a reference.                              *)
(***************************************************************************)
ResolvedSource == call.fn = "resolveSource" /\ call.done

\* the reference, trimmed and without a trailing ".md" in any case
Stripped(source) ==
    LET trimmed == Trim[source]
    IN  IF Len(trimmed) >= 3
           /\ ToLowerCase[SubSeq(trimmed, Len(trimmed) - 2, Len(trimmed))] = MdExt
        THEN SubSeq(trimmed, 1, Len(trimmed) - 3)
        ELSE trimmed

\* an absolute path at or below a folder, and its path from that folder
Inside(rootDir, p) ==
    /\ PathIsAbsolute[p]
    /\ Len(PathSegments[p]) >= Len(PathSegments[rootDir])
    /\ SubSeq(PathSegments[p], 1, Len(PathSegments[rootDir])) = PathSegments[rootDir]

Below(rootDir, p) ==
    JoinWith[SubSeq(PathSegments[p], Len(PathSegments[rootDir]) + 1,
                    Len(PathSegments[p])), <<"/">>]

FinalSegment(p) == PathSegments[p][Len(PathSegments[p])]

NoteOf(id) == [kind |-> "note", id |-> id]
EntryOf(id) == [kind |-> "entry", id |-> id]

FirstRule(ref) ==
    IF Inside(NotesDir, ref) THEN NoteOf(Below(NotesDir, ref))
    ELSE IF Inside(JournalDir, ref) /\ isDateSlug[FinalSegment(ref)]
    THEN EntryOf(FinalSegment(ref))
    ELSE IF StartsWith[ref, NotesPrefix] THEN NoteOf(SubSeq(ref, 7, Len(ref)))
    ELSE IF isDateSlug[ref] THEN EntryOf(ref)
    ELSE NoteOf(ref)

\* C15: resolveSource classifies a reference that is not empty by the first
\* of these rules that applies: an absolute path inside the notes root is the
\* Note of its path from the notes root; an absolute path inside the journal
\* root with a date for basename is the Entry of that date; after the prefix
\* notes/ comes a Note; a date is an Entry; anything else is a Note.
C15_FirstRuleThatApplies ==
    (ResolvedSource /\ Stripped(call.args[1]) # <<>>)
        => call.ret = FirstRule(Stripped(call.args[1]))

\* C16: resolveSource returns Unknown for every reference that is empty after
\* it is trimmed and a trailing ".md" in any case is taken off, and
\* resolveSourcePath gives no path with an empty id.
C16_EmptyIsUnknown ==
    /\ (ResolvedSource /\ Stripped(call.args[1]) = <<>>) => call.ret.kind = "unknown"
    /\ (call.fn = "resolveSourcePath" /\ call.done /\ ~call.ret.null)
          => call.ret.sourceInfo.id # <<>>

(***************************************************************************)
(* The LastOpened record: recordLastOpened, readLastOpened, openInEditor,  *)
(* the opens and getMostRecentPath.  The state file is a file of the same  *)
(* file system as the documents.                                            *)
(***************************************************************************)
StateDir == PathJoin[HomeDir, <<".", "l", "o", "c", "a", "l", "/", "s", "t", "a", "t", "e", "/", "l", "m">>]
StateFile == PathJoin[StateDir, <<"j", "-", "s", "t", "a", "t", "e", ".", "j", "s", "o", "n">>]

\* a string as JSON.stringify writes it between its quotes
EscapeJson[value \in Text] ==
    IF value = <<>> THEN <<>>
    ELSE (IF Head(value) \in {"\"", "\\"} THEN <<"\\", Head(value)>> ELSE <<Head(value)>>)
         \o EscapeJson[Tail(value)]

\* the pieces of JSON.stringify({lastOpenedPath, updatedAt}, null, 2)
JsonOpening == <<"{", "\n", " ", " ", "\"", "l", "a", "s", "t", "O", "p", "e", "n", "e", "d", "P", "a", "t", "h", "\"", ":", " ", "\"">>
JsonMiddle == <<"\"", ",", "\n", " ", " ", "\"", "u", "p", "d", "a", "t", "e", "d", "A", "t", "\"", ":", " ", "\"">>
JsonClosing == <<"\"", "\n", "}">>

stringifyLastOpened(lastOpenedPath, updatedAt) ==
    JsonOpening \o EscapeJson[lastOpenedPath] \o JsonMiddle \o EscapeJson[updatedAt]
        \o JsonClosing

\* the string of a JSON text that begins at position i, behind its opening
\* quote: its value and the position behind its closing quote
JsonString[content \in Text, i \in Nat, value \in Text] ==
    IF i > Len(content) THEN [ok |-> FALSE, value |-> <<>>, next |-> i]
    ELSE IF content[i] = "\"" THEN [ok |-> TRUE, value |-> value, next |-> i + 1]
    ELSE IF content[i] = "\\"
    THEN IF i < Len(content) /\ content[i + 1] \in {"\"", "\\", "/"}
         THEN JsonString[content, i + 2, Append(value, content[i + 1])]
         ELSE [ok |-> FALSE, value |-> <<>>, next |-> i]
    ELSE JsonString[content, i + 1, Append(value, content[i])]

\* JSON.parse(content) for the texts the state file holds here: the record as
\* recordLastOpened writes it, an object without members, and texts that are
\* no JSON
parseLastOpened[content \in Text] ==
    IF content = <<"{", "}">> THEN [ok |-> TRUE, lastOpenedPath |-> <<>>]
    ELSE IF ~StartsWith[content, JsonOpening] THEN [ok |-> FALSE, lastOpenedPath |-> <<>>]
    ELSE LET first == JsonString[content, Len(JsonOpening) + 1, <<>>]
             rest == SubSeq(content, first.next - 1, Len(content))
             second == JsonString[rest, Len(JsonMiddle) + 1, <<>>]
         IN  IF /\ first.ok
                /\ StartsWith[rest, JsonMiddle]
                /\ second.ok
                /\ SubSeq(rest, second.next - 1, Len(rest)) = JsonClosing
             THEN [ok |-> TRUE, lastOpenedPath |-> first.value]
             ELSE [ok |-> FALSE, lastOpenedPath |-> <<>>]

\* recordLastOpened(filePath) at the instant now
recordLastOpened(fs, filePath, now) ==
    WriteFile(fs, StateFile, stringifyLastOpened(filePath, now))

\* readLastOpened(); readError is the error of the read of the state file
\* when the file system refuses it ("none": it does not)
readLastOpened(fs, readError) ==
    IF ~FileExists(fs, StateFile) THEN [failed |-> FALSE, value |-> <<>>]
    ELSE IF readError # "none" THEN [failed |-> TRUE, value |-> <<>>]
    ELSE IF fs[StateFile] = <<>> THEN [failed |-> FALSE, value |-> <<>>]
    ELSE LET parsed == parseLastOpened[fs[StateFile]]
         IN  IF ~parsed.ok \/ parsed.lastOpenedPath = <<>>
                \/ ~FileExists(fs, parsed.lastOpenedPath)
             THEN [failed |-> FALSE, value |-> <<>>]
             ELSE [failed |-> FALSE, value |-> parsed.lastOpenedPath]

\* the loop of getMostRecentPath over the walked files from position i on
BestFrom[walked \in TextList, mtimes \in Seq(Int), i \in Nat, bestFile \in Text, bestMtime \in Int] ==
    IF i > Len(walked) THEN bestFile
    ELSE IF mtimes[i] >= bestMtime
    THEN BestFrom[walked, mtimes, i + 1, walked[i], mtimes[i]]
    ELSE BestFrom[walked, mtimes, i + 1, bestFile, bestMtime]

\* the selection of getMostRecentPath among the walked files
mostRecentlyModified(walked, mtimes) ==
    IF Len(walked) = 0 THEN <<>>
    ELSE BestFrom[walked, mtimes, 1, walked[1], 0]

\* getMostRecentPath(); walked is the list walkMarkdownFiles returns for the
\* journal root and mtimes the modification times stat gives for its files
getMostRecentPath(fs, readError, walked, mtimes) ==
    LET lastOpened == readLastOpened(fs, readError)
    IN  IF lastOpened.failed THEN lastOpened
        ELSE IF lastOpened.value # <<>> THEN lastOpened
        ELSE [failed |-> FALSE, value |-> mostRecentlyModified(walked, mtimes)]

(***************************************************************************)
(* The opens.  A process opens one document; the second process begins     *)
(* when the first has ended, and the clock has advanced by then.            *)
(***************************************************************************)
ErrNoEntries == "No entries found."
ErrEditor == "UnknownException"
ErrReadState == "PermissionDenied"

\* how the run of the editor ends: it exits, with any status, or it could not
\* be started
EditorOutcomes == {"exit0", "exit1", "notStarted"}

\* new Date().toISOString() during the open of process p
InstantOf(p) ==
    IF p = 1 THEN EntryDate \o <<"T", "0", "0", ":", "0", "0", ":", "0", "1", ".", "0", "0", "0", "Z">>
    ELSE EntryDate \o <<"T", "0", "0", ":", "0", "0", ":", "0", "2", ".", "0", "0", "0", "Z">>

Turn(p) == inv[p].pc = "idle" /\ (p = 1 \/ inv[1].pc \in {"done", "failed"})

\* openInEditor(filePath) by process p on the file system fs: the record is
\* written, then the editor is run
OpenInEditor(p, rec, fs, filePath) ==
    /\ files' = recordLastOpened(fs, filePath, InstantOf(p))
    /\ \E outcome \in EditorOutcomes :
          inv' = [inv EXCEPT ![p] =
                     IF outcome = "notStarted"
                     THEN Fail([rec EXCEPT !.targetPath = filePath], ErrEditor)
                     ELSE [rec EXCEPT !.targetPath = filePath, !.pc = "done"]]
    /\ UNCHANGED call

OpenEntry(p, date) ==
    /\ Turn(p)
    /\ \E filePath \in {entryPathForDate[date]} :
          OpenInEditor(p, [Idle EXCEPT !.op = "openEntry", !.source = date, !.pre = files],
                       ensureFileExists(files, filePath, date), filePath)

OpenNote(p, slug) ==
    /\ Turn(p)
    /\ \E filePath \in {notePathForSlug[slug]} :
          OpenInEditor(p, [Idle EXCEPT !.op = "openNote", !.slug = slug, !.pre = files],
                       ensureFileExists(files, filePath, slug), filePath)

\* searchByDate() without a tag; selection is what the picker returns, the
\* empty text when nothing is picked
SearchByDate(p, selection) ==
    /\ Turn(p)
    /\ \E found \in {listEntryFiles(files)},
          rec \in {[Idle EXCEPT !.op = "searchByDate", !.source = selection,
                                !.pre = files]} :
          /\ selection = <<>>
                \/ \E i \in 1..Len(found) : selection = PathRelative[JournalDir, found[i]]
          /\ IF selection = <<>>
             THEN /\ inv' = [inv EXCEPT ![p] = [rec EXCEPT !.pc = "done"]]
                  /\ UNCHANGED <<files, call>>
             ELSE OpenInEditor(p, rec, files, PathJoin[JournalDir, selection])

\* the lists a walk can return: the files in an order of the directory
\* listing, those of one folder next to each other
SharedFolders(a, b) ==
    LET common == CommonPrefixLen[PathSegments[a], PathSegments[b]]
        shorter == IF Len(PathSegments[a]) < Len(PathSegments[b])
                   THEN Len(PathSegments[a]) ELSE Len(PathSegments[b])
    IN  IF common < shorter THEN common ELSE shorter - 1

WalkOrders(found) ==
    {order \in [1..Cardinality(found) -> found] :
        /\ \A i, j \in DOMAIN order : order[i] = order[j] => i = j
        /\ \A i, j, k \in DOMAIN order :
              (i < j /\ j < k)
                  => SharedFolders(order[i], order[k]) <= SharedFolders(order[i], order[j])}

\* the modification times stat reports, in milliseconds from 1970 on
MTimes == {0 - 1, 10, 30}

OpenMostRecent(p, readError, walked, mtimes) ==
    /\ Turn(p)
    /\ \E bestFile \in {getMostRecentPath(files, readError, walked, mtimes)},
          rec \in {[Idle EXCEPT !.op = "openMostRecent", !.pre = files]} :
          IF bestFile.failed
          THEN /\ inv' = [inv EXCEPT ![p] = Fail(rec, readError)]
               /\ UNCHANGED <<files, call>>
          ELSE IF bestFile.value = <<>>
          THEN /\ inv' = [inv EXCEPT ![p] = Fail(rec, ErrNoEntries)]
               /\ UNCHANGED <<files, call>>
          ELSE OpenInEditor(p, rec, files, bestFile.value)

\* readLastOpened() and getMostRecentPath() called on their own
CallReadLastOpened(readError) ==
    /\ call.fn = "readLastOpened"
    /\ ~call.done
    /\ call' = [call EXCEPT !.done = TRUE, !.args = <<readError>>,
                            !.ret = readLastOpened(files, readError)]
    /\ UNCHANGED <<files, inv>>

CallGetMostRecentPath(readError, walked, mtimes) ==
    /\ call.fn = "getMostRecentPath"
    /\ ~call.done
    /\ call' = [call EXCEPT !.done = TRUE, !.args = <<readError, walked, mtimes>>,
                            !.ret = getMostRecentPath(files, readError, walked, mtimes)]
    /\ UNCHANGED <<files, inv>>

\* "x\n"
DocX == <<"x", "\n">>

\* the instant of the record the state file holds before the opens
InstantBefore == EntryDate \o <<"T", "0", "0", ":", "0", "0", ":", "0", "0", ".", "0", "0", "0", "Z">>

OpenDates == {EntryDate}
OpenSlugs == {<<"n", "1">>, SlugN2}

\* what the state file holds before the opens: a record of an entry or of a
\* note, an object without members, a text that is no JSON, nothing
StateTexts ==
    {stringifyLastOpened(EntryPath, InstantBefore),
     stringifyLastOpened(NotePath1, InstantBefore),
     <<"{", "}">>,
     <<"{">>,
     <<>>}

OpenStores ==
    {fs \in UNION {[present -> {DocX} \cup StateTexts] :
                      present \in SUBSET {EntryPath, NotePath1, NotePath2, StateFile}} :
        \A q \in DOMAIN fs : (fs[q] = DocX) <=> (q # StateFile)}

InitOpen ==
    /\ files \in OpenStores
    /\ inv = [p \in Procs |-> Idle]
    /\ call = NoCall

ReadErrors(fs) == IF FileExists(fs, StateFile) THEN {"none", ErrReadState} ELSE {"none"}

NextOpen ==
    \E p \in Procs :
        \/ \E date \in OpenDates : OpenEntry(p, date)
        \/ \E slug \in OpenSlugs : OpenNote(p, slug)
        \/ \E selection \in {<<>>} \cup {PathRelative[JournalDir, q] : q \in DOMAIN files} :
              SearchByDate(p, selection)
        \/ \E readError \in ReadErrors(files),
              walked \in WalkOrders(walkMarkdownFiles(files, JournalDir, {})) :
              \E mtimes \in [1..Len(walked) -> MTimes] :
                  OpenMostRecent(p, readError, walked, mtimes)
        \/ Turn(p) /\ ExtractToNoteStart(p, EntryRef, 1, 1, SlugN2)
        \/ ExtractToNoteWriteSource(p)
        \/ EnsureTarget(p)
        \/ ReadTarget(p)
        \/ WriteTarget(p)

SpecOpen == InitOpen /\ [][NextOpen]_vars

\* readLastOpened and getMostRecentPath on their own
InitRecent ==
    /\ files \in OpenStores
    /\ inv = [p \in Procs |-> Off]
    /\ \E fn \in {"readLastOpened", "getMostRecentPath"} :
          call = [fn |-> fn, args |-> <<>>, done |-> FALSE, ret |-> <<>>]

NextRecent ==
    \/ \E readError \in ReadErrors(files) : CallReadLastOpened(readError)
    \/ \E readError \in ReadErrors(files),
          walked \in WalkOrders(walkMarkdownFiles(files, JournalDir, {})) :
          \E mtimes \in [1..Len(walked) -> MTimes] :
              CallGetMostRecentPath(readError, walked, mtimes)

SpecRecent == InitRecent /\ [][NextRecent]_vars

(***************************************************************************)
(* Claims about the opens and the LastOpened record.                        *)
(***************************************************************************)
OpenOps == {"openEntry", "openNote", "searchByDate", "openMostRecent"}

\* the file system when the operation of process p has ended
AfterOf(p) == IF p = 1 /\ inv[2].pc # "idle" THEN inv[2].pre ELSE files

\* the state record of a file system, if there is one
StateRecordOf(fs) == [q \in DOMAIN fs \cap {StateFile} |-> fs[q]]

Opened(p) == inv[p].op \in OpenOps /\ inv[p].pc = "done" /\ inv[p].targetPath # <<>>
EditorNotStarted(p) == inv[p].op \in OpenOps /\ inv[p].pc = "failed" /\ inv[p].error = ErrEditor

\* after an open whose editor ran, the record names the opened document
OpenIsRecorded ==
    \A p \in Procs :
        Opened(p) => readLastOpened(AfterOf(p), "none")
                        = [failed |-> FALSE, value |-> inv[p].targetPath]

\* C17: every open overwrites the LastOpened record with the opened path, so
\* that readLastOpened returns the path of the most recent successful open,
\* and an open whose editor could not be run leaves the record as it was.
C17_RecordFollowsSuccessfulOpens ==
    /\ OpenIsRecorded
    /\ \A p \in Procs :
          EditorNotStarted(p) => StateRecordOf(AfterOf(p)) = StateRecordOf(inv[p].pre)

\* the documents of a file system
DocumentsOf(fs) == DOMAIN fs \ {StateFile}

\* the title of the step of process p: the date an entry is opened by, the
\* slug a note is opened by, the slug of the target of an extraction
TitleOf(p) ==
    IF inv'[p].op = "openEntry" THEN inv'[p].source
    ELSE IF inv'[p].op = "openNote" THEN inv'[p].slug
    ELSE inv'[p].targetSlug

\* a step in which ensureFileExists runs: an open of an entry or of a note,
\* or the step of an extraction that makes sure of its target
EnsureStep ==
    \E p \in Procs :
        \/ inv[p].pc = "idle" /\ inv'[p].op \in {"openEntry", "openNote"}
        \/ inv[p].pc = "wrote" /\ inv'[p].pc = "ensured"

\* C19: no step deletes a document; a document that appears has the content
\* "# <title>\ntags:\n\n", the title being the date of an entry and the slug of
\* a note, the target note of an extraction included; and a step in which
\* ensureFileExists runs leaves the content of every document that exists.
C19_CreatedFromTemplateOnly ==
    [][/\ DocumentsOf(files) \subseteq DocumentsOf(files')
       /\ \A q \in DocumentsOf(files') \ DocumentsOf(files) :
             \E p \in Procs :
                 /\ inv'[p] # inv[p]
                 /\ files'[q] = <<"#", " ">> \o TitleOf(p)
                                    \o <<"\n", "t", "a", "g", "s", ":", "\n", "\n">>
       /\ EnsureStep => \A q \in DocumentsOf(files) : files'[q] = files[q]
      ]_vars

\* an open has made the absent entry, an extraction from it has then made its
\* absent target note, and a note that was there is as it was
C19_Witness ==
    /\ inv[1].op = "openEntry"
    /\ inv[1].pc = "done"
    /\ ~FileExists(inv[1].pre, EntryPath)
    /\ FileExists(inv[1].pre, NotePath1)
    /\ inv[2].op = "extractToNote"
    /\ inv[2].pc = "ensured"
    /\ ~FileExists(inv[2].pre, NotePath2)
    /\ files[NotePath2] = Template[SlugN2]
    /\ files[NotePath1] = DocX

(***************************************************************************)
(* Claims about readLastOpened and getMostRecentPath.                       *)
(***************************************************************************)
ReadLastOpenedReturns == call'.fn = "readLastOpened" /\ call'.done /\ ~call.done
GetMostRecentPathReturns == call'.fn = "getMostRecentPath" /\ call'.done /\ ~call.done

\* the state record names a document that exists
RecordNamesDocument(fs) ==
    /\ FileExists(fs, StateFile)
    /\ \E q \in DOMAIN fs \ {StateFile} :
          fs[StateFile] = stringifyLastOpened(q, InstantBefore)

\* C18: readLastOpened never fails and never writes; it returns the empty
\* path when the state record is missing, cannot be read, is no JSON, has no
\* path or names a file that is not there, and getMostRecentPath then returns
\* one of the walked documents.
C18_ResolveNeverFails ==
    [][/\ ReadLastOpenedReturns =>
             /\ ~call'.ret.failed
             /\ files' = files
             /\ (~RecordNamesDocument(files) \/ call'.args[1] # "none")
                   => call'.ret.value = <<>>
       /\ (GetMostRecentPathReturns /\ ~RecordNamesDocument(files)
             /\ call'.args[2] # <<>>)
             => \E i \in 1..Len(call'.args[2]) : call'.ret.value = call'.args[2][i]
      ]_vars

\* getMostRecentPath has returned and there was no record of a document
SelectedWithoutPointer ==
    /\ call.fn = "getMostRecentPath"
    /\ call.done
    /\ call.args[1] = "none"
    /\ ~RecordNamesDocument(files)
    /\ call.args[2] # <<>>

\* C20: without a valid LastOpened pointer, getMostRecentPath over a list of
\* files that is not empty returns a file whose modification time is the
\* greatest of the list and, of the files that have that time, the last one in
\* the order of the list.
C20_LatestOfTheMostRecent ==
    SelectedWithoutPointer =>
        \E i \in 1..Len(call.args[2]) :
            /\ call.ret.value = call.args[2][i]
            /\ \A j \in 1..Len(call.args[2]) :
                  /\ call.args[3][j] <= call.args[3][i]
                  /\ j > i => call.args[3][j] < call.args[3][i]

(***************************************************************************)
(* Claims about the blocks of the sections.                                 *)
(***************************************************************************)
\* the lines after line n that are not blank
NonBlankAfter(lines, n) == {m \in (n + 1)..Len(lines) : ~IsBlankText(lines[m])}

FirstOf(S) == CHOOSE m \in S : \A k \in S : m <= k

\* C23: for every section collectSections returns, blockEndLine is the number
\* of the first non-blank line after endLine when that line is a separator,
\* and endLine otherwise; the lines between endLine and blockEndLine are
\* blank; and no separator is the blockEndLine of two sections.
C23_BlockEndsAtNextSeparator ==
    (call.fn = "collectSections" /\ call.done) =>
        LET secs == call.ret
            lines == SplitLines[call.args[1]]
        IN  /\ \A i \in 1..Len(secs) :
                  /\ secs[i].blockEndLine =
                        IF NonBlankAfter(lines, secs[i].endLine) # {}
                           /\ IsRule(lines[FirstOf(NonBlankAfter(lines, secs[i].endLine))])
                        THEN FirstOf(NonBlankAfter(lines, secs[i].endLine))
                        ELSE secs[i].endLine
                  /\ \A n \in (secs[i].endLine + 1)..(secs[i].blockEndLine - 1) :
                        IsBlankText(lines[n])
            /\ \A i, j \in 1..Len(secs) :
                  (i # j /\ secs[i].blockEndLine > secs[i].endLine)
                      => secs[i].blockEndLine # secs[j].blockEndLine

\* a section whose block takes in a separator behind a blank line, and a
\* last section with no separator after it
C23_Witness ==
    /\ call.fn = "collectSections"
    /\ call.done
    /\ Len(call.ret) = 2
    /\ call.ret[1].blockEndLine = call.ret[1].endLine + 2
    /\ call.ret[2].blockEndLine = call.ret[2].endLine
    /\ LineCount(call.args[1]) = call.ret[2].endLine

(***************************************************************************)
(* Claims about the order of the checks of extractToNote.                   *)
(***************************************************************************)
\* the source of the invocation is not resolved or was not there at the call
SourceMissing(rec) ==
    \/ resolveSource[rec.source].kind = "unknown"
    \/ ~FileExists(rec.pre, resolveSourcePath[rec.source].sourcePath)

\* the range of the invocation does not lie in the lines of its source
RangeOutside(rec) ==
    InvalidRange(SplitLines[rec.pre[resolveSourcePath[rec.source].sourcePath]],
                 rec.startLine, rec.endLine)

\* C24: extractToNote checks the source (resolution and existence) first,
\* then the line range, then the target slug: a call that fails reports the
\* first of these that does not hold, so a missing source with an empty slug
\* is reported as SourceNotFound and an invalid range with an empty slug as
\* InvalidRange.
C24_SourceThenRangeThenSlug ==
    \A p \in Procs :
        (inv[p].op = "extractToNote" /\ inv[p].pc = "failed"
            /\ inv[p].error \in ValidationFailures)
            => IF SourceMissing(inv[p]) THEN inv[p].error \in SourceNotFound
               ELSE IF RangeOutside(inv[p]) THEN inv[p].error = ErrInvalidRange
               ELSE inv[p].error = ErrMissingSlug

(***************************************************************************)
(* Two invocations of extractToNote at once on one entry.                   *)
(***************************************************************************)
InitConcurrent ==
    /\ files = WriteFile(EmptyFiles, EntryPath, DocAB)
    /\ inv = [p \in Procs |-> Idle]
    /\ call = NoCall

\* process 1 takes the first line or the first two out, process 2 the last
\* two; into the same note or into two
ExtractToNoteCallOfTwo(p) ==
    /\ inv[p].pc = "idle"
    /\ \E r \in IF p = 1 THEN {<<1, 1>>, <<1, 2>>} ELSE {<<4, 5>>},
          slug \in IF p = 1 THEN {SlugN2} ELSE {SlugN2, SlugN3} :
          ExtractToNoteStart(p, EntryRef, r[1], r[2], slug)

NextConcurrent ==
    \E p \in Procs :
        \/ ExtractToNoteCallOfTwo(p)
        \/ ExtractToNoteWriteSource(p)
        \/ EnsureTarget(p)
        \/ ReadTarget(p)
        \/ WriteTarget(p)

SpecConcurrent == InitConcurrent /\ [][NextConcurrent]_vars

(***************************************************************************)
(* Claims about invocations that run at once.                               *)
(***************************************************************************)
\* process p writes its source, or its target, in this step
WritesSource(p) == inv[p].pc = "read" /\ inv'[p].pc \in {"wrote", "done"}
WritesTarget(p) == inv[p].pc = "readTarget" /\ inv'[p].pc = "done"

\* C25: an extraction writes back what it has made of the content it read,
\* whatever the file holds by then: the source becomes the rewrite of the
\* lines read at the start and the target the text read plus the payload, and
\* no step fails because the file has changed since.  So of two invocations
\* at once the later write replaces the earlier one.
C25_WritesWhatItRead ==
    [][\A p \in Procs :
          /\ WritesSource(p) =>
                files'[inv[p].sourcePath] =
                    JoinLines[ExpectedRange(SplitLines[inv[p].sourceContent],
                                            inv[p].startLine, inv[p].endLine,
                                            inv[p].targetSlug)]
          /\ WritesTarget(p) =>
                files'[inv[p].targetPath] =
                    appendWithSpacing(inv[p].targetContent, inv[p].mergedText)
          /\ (inv[p].pc \in {"read", "wrote", "ensured", "readTarget"})
                => inv'[p].pc # "failed"
      ]_vars

\* the text is a line of the file
HasLine(fs, path, line) ==
    FileExists(fs, path) /\ \E n \in 1..Len(SplitLines[fs[path]]) : SplitLines[fs[path]][n] = line

\* both invocations have ended well, and the line A that the first took out
\* of the entry is in no file: the second has overwritten the note the first
\* had appended it to
C25_Witness ==
    /\ inv[1].pc = "done"
    /\ inv[2].pc = "done"
    /\ inv[1].startLine = 1
    /\ ~HasLine(files, EntryPath, <<"A">>)
    /\ ~HasLine(files, NotePath2, <<"A">>)
    /\ DOMAIN files = {EntryPath, NotePath2}

(***************************************************************************)
(* Claims about an extraction into the source itself.                       *)
(***************************************************************************)
\* the backlink line, a blank line and the payload
AppendedPart(rec) == BacklinkOf(rec) \o <<"\n", "\n">> \o PayloadOf(rec)

\* the texts that are the rewritten source, then at most one blank line of
\* spacing, then the backlink and the payload, ended by a newline
RewrittenThenAppended(rec) ==
    {RewrittenSource(rec) \o spacing \o AppendedPart(rec) \o ending :
        spacing \in {<<>>, <<"\n">>, <<"\n", "\n">>}, ending \in {<<>>, <<"\n">>}}

\* the invocation has ended well and its target note was its source
EndedOnItself(rec) == rec.pc = "done" /\ SelfTarget(rec)

\* C28 as amended: when the target note is the source itself, at the end of
\* a successful extraction with a payload that is not blank the file holds
\* the source as rewritten (every line outside the span, the link line in
\* its place) and after it the backlink and the payload; with a blank payload
\* it holds the rewritten source and nothing after it.
C28_SelfTargetKeepsBoth ==
    \A p \in Procs :
        EndedOnItself(inv[p]) =>
            IF IsBlankText(PayloadOf(inv[p]))
            THEN files[inv[p].sourcePath] = RewrittenSource(inv[p])
            ELSE files[inv[p].sourcePath] \in RewrittenThenAppended(inv[p])

\* C28 as it stands: whenever the target note is the source itself, the file
\* holds at the end the rewritten source and after it the backlink and the
\* payload.
C28_AlwaysAppended ==
    \A p \in Procs :
        EndedOnItself(inv[p]) =>
            files[inv[p].sourcePath] \in RewrittenThenAppended(inv[p])

\* lines 1-2 of the note n1 "A\nB\n---\nC\nD\n" are moved to the note n1
C28_Witness ==
    /\ EndedOnItself(inv[1])
    /\ inv[1].op = "extractToNote"
    /\ inv[1].pre[inv[1].sourcePath] = DocAB
    /\ inv[1].startLine = 1
    /\ inv[1].endLine = 2
    /\ files[NotePath1] =
           <<"[", "n", "1", "]", "(", "n", "o", "t", "e", "s", "/", "n", "1", ".",
             "m", "d", ")", "\n", "-", "-", "-", "\n", "C", "\n", "D", "\n", "\n",
             "S", "o", "u", "r", "c", "e", ":", " ", "[", "n", "1", "]", "(",
             "n", "1", ".", "m", "d", ")", "\n", "\n", "A", "\n", "B", "\n">>

(***************************************************************************)
(* Claims about the sections of a source after an extraction of sections.   *)
(***************************************************************************)
\* extractSectionsToNote has just written the source
SectionsJustCut(rec) == rec.op = "extractSectionsToNote" /\ rec.pc = "wrote"

\* the extracted section v is not the last one and no second separator lies
\* between its block and the section after it: with the block goes the only
\* separator between the two
JoinsNext(L, secs, v) ==
    /\ v < Len(secs)
    /\ \A i \in (secs[v].blockEndLine + 1)..(secs[v + 1].startLine - 1) : ~IsRule(L[i])

\* section k of the rewritten source is the link line of the section k cut out
IsLinkSection(after, k, La, Lb, before, slug) ==
    /\ after[k].startLine = after[k].endLine
    /\ La[after[k].startLine] = LinkTo(Indent(Lb[before[k].startLine]), slug)

\* section k of the rewritten source is section k as it was
IsSameSection(after, k, La, Lb, before) ==
    /\ after[k].title = before[k].title
    /\ SubSeq(La, after[k].startLine, after[k].endLine)
           = SubSeq(Lb, before[k].startLine, before[k].endLine)

\* every section is there again, the extracted ones as their link lines
SectionsKept(rec, fs) ==
    LET Lb == SourceLinesBefore(rec)
        La == SplitLines[fs[rec.sourcePath]]
        before == SectionsBefore(rec)
        after == collectSections(fs[rec.sourcePath])
    IN  /\ Len(after) = Len(before)
        /\ \A k \in 1..Len(before) :
              IF k \in ValidRequested(rec)
              THEN IsLinkSection(after, k, La, Lb, before, PlainSlug(rec.slug))
              ELSE IsSameSection(after, k, La, Lb, before)

\* the extracted sections that join the section after them
Joined(rec) ==
    {v \in ValidRequested(rec) : JoinsNext(SourceLinesBefore(rec), SectionsBefore(rec), v)}

TodayDate == <<"2", "0", "2", "4", "-", "0", "1", "-", "0", "2">>
TodayPath == entryPathForDate[TodayDate]

\* "a\n---\n***\nb": two sections that two separators part
DocGap == <<"a", "\n", "-", "-", "-", "\n", "*", "*", "*", "\n", "b">>

ExtractDocs == {DocAB, DocGap, DocThree}

ExtractSlugs == {SlugN2, SlugN1, SlugUp, SlugOut, SlugAbs}

ExtractRanges == {<<1, 1>>, <<1, 2>>, <<4, 4>>, <<0, 1>>}

ExtractRequests == {<<1>>, <<2>>, <<1, 2>>, <<3, 1>>, <<4>>}

\* a failure of fs.makeDirectory, fs.writeFileString or fs.readFileString
ErrTargetIO == <<"P", "l", "a", "t", "f", "o", "r", "m", "E", "r", "r", "o", "r">>

InitExtract ==
    /\ \E doc \in ExtractDocs, others \in {EmptyFiles, WriteFile(EmptyFiles, NotePath2, DocX)} :
          files = recordLastOpened(
                      WriteFile(WriteFile(WriteFile(others, TodayPath, DocX),
                                          NotePath1, doc),
                                EntryPath, doc),
                      EntryPath, InstantBefore)
    /\ inv = [p \in Procs |-> IF p = 1 THEN Idle ELSE Off]
    /\ call = NoCall

ExtractToNoteCallIn(p) ==
    /\ inv[p].pc = "idle"
    /\ \E source \in {EntryRef, NoteRef}, slug \in ExtractSlugs, r \in ExtractRanges :
          ExtractToNoteStart(p, source, r[1], r[2], slug)

ExtractSectionsCallIn(p) ==
    /\ inv[p].pc = "idle"
    /\ \E source \in {EntryRef, NoteRef}, slug \in ExtractSlugs, l \in ExtractRequests :
          ExtractSectionsStart(p, source,
                               [isText |-> FALSE, list |-> l, text |-> <<>>], slug)

\* the file system refuses the creation, the read or the write of the target
TargetFails(p) ==
    /\ inv[p].pc \in {"wrote", "ensured", "readTarget"}
    /\ inv' = [inv EXCEPT ![p] = Fail(inv[p], ErrTargetIO)]
    /\ UNCHANGED <<files, call>>

NextExtract ==
    \E p \in Procs :
        \/ ExtractToNoteCallIn(p)
        \/ ExtractToNoteWriteSource(p)
        \/ ExtractSectionsCallIn(p)
        \/ ExtractSectionsWriteSource(p)
        \/ EnsureTarget(p)
        \/ ReadTarget(p)
        \/ WriteTarget(p)
        \/ TargetFails(p)

SpecExtract == InitExtract /\ [][NextExtract]_vars

(***************************************************************************)
(* Claims about what an extraction touches.                                 *)
(***************************************************************************)
\* the paths that hold something else than at the call, or that came or went
Touched(rec, fs) ==
    {path \in DOMAIN fs \cup DOMAIN rec.pre :
        ~(path \in DOMAIN fs /\ path \in DOMAIN rec.pre /\ fs[path] = rec.pre[path])}

\* C22: a successful extraction writes at most its source and its target:
\* every other file, the entry of another day and the state file among them,
\* holds at the end what it held at the call, and no other file has come
\* into being.
C22_OnlySourceAndTarget ==
    \A p \in Procs :
        inv[p].pc = "done" =>
            /\ Touched(inv[p], files) \subseteq {inv[p].sourcePath, inv[p].targetPath}
            /\ files[TodayPath] = DocX
            /\ files[StateFile] = stringifyLastOpened(EntryPath, InstantBefore)

\* lines 1-2 of the note n1 have been moved to the new note n2: both files
\* are written, the other entries and the record are as they were
C22_Witness ==
    /\ inv[1].pc = "done"
    /\ inv[1].source = NoteRef
    /\ inv[1].slug = SlugN2
    /\ Touched(inv[1], files) = {NotePath1, NotePath2}
    /\ files[EntryPath] = inv[1].pre[EntryPath]

(***************************************************************************)
(* Claims about where the target of an extraction lies.                     *)
(***************************************************************************)
\* the path lies under the notes root
UnderNotes(path) == Inside(NotesDir, path) /\ path # NotesDir

\* C26: the target of an extraction whose slug has been accepted lies under
\* the notes root, and so does every file other than the source that the
\* extraction has made or changed.
C26_TargetUnderNotes ==
    \A p \in Procs :
        WroteSource(inv[p]) =>
            /\ UnderNotes(inv[p].targetPath)
            /\ \A path \in Touched(inv[p], files) \ {inv[p].sourcePath} : UnderNotes(path)

(***************************************************************************)
(* Claims about the payload between the two writes.                         *)
(***************************************************************************)
\* the invocation has written its source and has not ended well: it is on
\* its way to the target, or the target has failed it
BetweenWrites(rec) ==
    \/ rec.pc \in {"wrote", "ensured", "readTarget"}
    \/ rec.pc = "failed" /\ rec.error \in {ErrTargetIO, ErrReadTarget}

\* the lines of the payload that are not blank
PayloadLines(rec) ==
    {SplitLines[PayloadOf(rec)][n] : n \in 1..Len(SplitLines[PayloadOf(rec)])}
        \ {l \in Text : IsBlankText(l)}

\* C27: from the write of the source on, and when the target fails, every
\* line of the payload is a line of the source file or of the target file.
C27_PayloadOnDisk ==
    \A p \in Procs :
        (BetweenWrites(inv[p]) \/ inv[p].pc = "done") =>
            \A line \in PayloadLines(inv[p]) :
                \/ HasLine(files, inv[p].sourcePath, line)
                \/ HasLine(files, inv[p].targetPath, line)

(***************************************************************************)
(* The command line of j: parseArgs and the extract branch of main.         *)
(***************************************************************************)
\* greatest number of arguments of the drawn command lines
MaxArgs == 3

\* undefined, for a text, a number and a list of numbers
Undefined == <<"undefined">>
NoNumber == 0 - 1
NoList == <<0 - 1>>

TokJson == <<"-", "-", "j", "s", "o", "n">>
TokHelp == <<"-", "h">>
TokTag == <<"-", "t">>
TokNote == <<"-", "n">>
TokExtract == <<"-", "x">>
TokSections == <<"-", "-", "s", "e", "c", "t", "i", "o", "n", "s">>
TokSlug == <<"-", "-", "s", "l", "u", "g">>
TokAi == <<"a", "i">>

\* next && ..., !source: neither undefined nor the empty string
Truthy(value) == value # Undefined /\ value # <<>>

\* args[index] of an array, undefined past its end (index from 1)
ArgAt(args, index) == IF index \in 1..Len(args) THEN args[index] ELSE Undefined

\* /^-\d+$/.test(arg)
IsOffsetArg(arg) == arg # <<>> /\ Head(arg) = "-" /\ IsDecimal[Tail(arg)]

\* arg.startsWith("-")
IsDashed(arg) == arg # <<>> /\ Head(arg) = "-"

\* arg.slice(prefix.length)
SliceAfter(arg, prefix) == SubSeq(arg, Len(prefix) + 1, Len(arg))

parseSectionListArg(value) == NumbersOf[SplitListFrom[value, 1, <<>>]]

\* the variables of parseArgs before its loop
ParseStart ==
    [mode |-> "today", tag |-> Undefined, daysAgo |-> NoNumber, noteSlug |-> Undefined,
     extractSource |-> Undefined, extractStart |-> NoNumber, extractEnd |-> NoNumber,
     extractSections |-> NoList, extractSlug |-> Undefined, sectionsSource |-> Undefined]

ParseStates ==
    [mode : STRING, tag : Text, daysAgo : Int, noteSlug : Text, extractSource : Text,
     extractStart : Int, extractEnd : Int, extractSections : Seq(Int),
     extractSlug : Text, sectionsSource : Text]

\* what parseArgs ends with: a failure, null after the usage text, or the
\* parsed arguments
ParseFailed(message) ==
    [failed |-> TRUE, help |-> FALSE, error |-> message, json |-> FALSE, parsed |-> ParseStart]
ParseHelp ==
    [failed |-> FALSE, help |-> TRUE, error |-> "", json |-> FALSE, parsed |-> ParseStart]
ParseOk(st, json) ==
    [failed |-> FALSE, help |-> FALSE, error |-> "", json |-> json, parsed |-> st]

\* mode = "tag" when it is still "today"
TagMode(st) == IF st.mode = "today" THEN "tag" ELSE st.mode

\* --sections with its value, in the extract mode and out of it
WithSections(st, value) ==
    IF st.mode = "extract"
    THEN [st EXCEPT !.extractSections = parseSectionListArg(value)]
    ELSE [st EXCEPT !.mode = "sections", !.sectionsSource = value]

\* the default branch of the switch: the step it takes, or a failure
\* (next = 0) when no rule takes the argument
DefaultArg(st, arg) ==
    IF StartsWith[arg, <<"-", "-", "t", "a", "g", "=">>]
    THEN [next |-> 1, st |-> [st EXCEPT !.tag = SliceAfter(arg, <<"-", "-", "t", "a", "g", "=">>),
                                       !.mode = TagMode(st)]]
    ELSE IF StartsWith[arg, TokSections \o <<"=">>]
    THEN [next |-> 1, st |-> WithSections(st, SliceAfter(arg, TokSections \o <<"=">>))]
    ELSE IF StartsWith[arg, TokSlug \o <<"=">>]
    THEN [next |-> 1, st |-> [st EXCEPT !.extractSlug = SliceAfter(arg, TokSlug \o <<"=">>)]]
    ELSE IF StartsWith[arg, <<"-", "t", "=">>]
    THEN [next |-> 1, st |-> [st EXCEPT !.tag = SliceAfter(arg, <<"-", "t", "=">>),
                                       !.mode = TagMode(st)]]
    ELSE IF StartsWith[arg, <<"-", "-", "n", "o", "t", "e", "=">>]
    THEN [next |-> 1, st |-> [st EXCEPT !.mode = "note",
                                       !.noteSlug = SliceAfter(arg, <<"-", "-", "n", "o", "t", "e", "=">>)]]
    ELSE IF StartsWith[arg, <<"-", "n", "=">>]
    THEN [next |-> 1, st |-> [st EXCEPT !.mode = "note",
                                       !.noteSlug = SliceAfter(arg, <<"-", "n", "=">>)]]
    ELSE IF st.mode = "extract" /\ IsDecimal[arg] /\ st.extractStart = NoNumber
    THEN [next |-> 1, st |-> [st EXCEPT !.extractStart = DecimalValue[arg, 0]]]
    ELSE IF st.mode = "extract" /\ IsDecimal[arg] /\ st.extractEnd = NoNumber
    THEN [next |-> 1, st |-> [st EXCEPT !.extractEnd = DecimalValue[arg, 0]]]
    ELSE IF st.mode = "extract" /\ ~IsDashed(arg) /\ ~Truthy(st.extractSlug)
    THEN [next |-> 1, st |-> [st EXCEPT !.extractSlug = arg]]
    ELSE IF IsOffsetArg(arg)
    THEN [next |-> 1, st |-> [st EXCEPT !.daysAgo = DecimalValue[Tail(arg), 0],
                                       !.mode = "offset"]]
    ELSE [next |-> 0, st |-> st]

\* the while loop of parseArgs from filteredArgs[index] on (index from 1);
\* -t and -n look for their value in args, the other options in filteredArgs
ParseLoop[args \in TextList, filteredArgs \in TextList, index \in Nat, st \in ParseStates] ==
    IF index > Len(filteredArgs) THEN [failed |-> FALSE, help |-> FALSE, error |-> "", st |-> st]
    ELSE LET arg == filteredArgs[index]
             inArgs == ArgAt(args, index + 1)
             inFiltered == ArgAt(filteredArgs, index + 1)
             Bad(message) == [failed |-> TRUE, help |-> FALSE, error |-> message, st |-> st]
         IN  IF arg \in {TokHelp, <<"-", "-", "h", "e", "l", "p">>}
             THEN [failed |-> FALSE, help |-> TRUE, error |-> "", st |-> st]
             ELSE IF arg \in {<<"-", "d">>, <<"-", "-", "d", "a", "t", "e">>}
             THEN ParseLoop[args, filteredArgs, index + 1, [st EXCEPT !.mode = "date"]]
             ELSE IF arg \in {<<"-", "s">>, <<"-", "-", "s", "e", "a", "r", "c", "h">>}
             THEN ParseLoop[args, filteredArgs, index + 1, [st EXCEPT !.mode = "search"]]
             ELSE IF arg \in {<<"-", "l">>, <<"-", "-", "t", "i", "m", "e", "l", "i", "n", "e">>}
             THEN ParseLoop[args, filteredArgs, index + 1, [st EXCEPT !.mode = "timeline"]]
             ELSE IF arg \in {TokTag, <<"-", "-", "t", "a", "g">>}
             THEN IF Truthy(inArgs) /\ ~IsDashed(inArgs)
                  THEN ParseLoop[args, filteredArgs, index + 2,
                                 [st EXCEPT !.tag = inArgs, !.mode = TagMode(st)]]
                  ELSE ParseLoop[args, filteredArgs, index + 1,
                                 [st EXCEPT !.tag = <<>>, !.mode = TagMode(st)]]
             ELSE IF arg \in {TokNote, <<"-", "-", "n", "o", "t", "e">>}
             THEN IF Truthy(inArgs) /\ ~IsDashed(inArgs)
                  THEN ParseLoop[args, filteredArgs, index + 2,
                                 [st EXCEPT !.mode = "note", !.noteSlug = inArgs]]
                  ELSE ParseLoop[args, filteredArgs, index + 1, [st EXCEPT !.mode = "note"]]
             ELSE IF arg \in {<<"-", "c">>, <<"-", "-", "c", "o", "n", "t", "i", "n", "u", "e">>}
             THEN ParseLoop[args, filteredArgs, index + 1, [st EXCEPT !.mode = "continue"]]
             ELSE IF arg \in {TokExtract, <<"-", "-", "e", "x", "t", "r", "a", "c", "t">>}
             THEN IF ~Truthy(inFiltered) THEN Bad("Missing --extract arguments")
                  ELSE ParseLoop[args, filteredArgs, index + 2,
                                 [st EXCEPT !.mode = "extract", !.extractSource = inFiltered]]
             ELSE IF arg = TokSections
             THEN IF ~Truthy(inFiltered) THEN Bad("Missing --sections value")
                  ELSE ParseLoop[args, filteredArgs, index + 2, WithSections(st, inFiltered)]
             ELSE IF arg = TokSlug
             THEN IF ~Truthy(inFiltered) THEN Bad("Missing --slug value")
                  ELSE ParseLoop[args, filteredArgs, index + 2,
                                 [st EXCEPT !.extractSlug = inFiltered]]
             ELSE IF DefaultArg(st, arg).next = 0 THEN Bad("Unknown option")
             ELSE ParseLoop[args, filteredArgs, index + 1, DefaultArg(st, arg).st]

\* args.filter((arg) => arg !== "--json")
FilteredArgs(args) == SelectSeq(args, LAMBDA arg : arg # TokJson)

parseArgs(args) ==
    LET json == \E i \in 1..Len(args) : args[i] = TokJson
        filteredArgs == FilteredArgs(args)
        end == ParseLoop[args, filteredArgs, 1, ParseStart]
    IN  IF Len(filteredArgs) = 1 /\ IsOffsetArg(filteredArgs[1])
        THEN ParseOk([ParseStart EXCEPT !.mode = "offset",
                                        !.daysAgo = DecimalValue[Tail(filteredArgs[1]), 0]],
                     json)
        ELSE IF end.failed THEN ParseFailed(end.error)
        ELSE IF end.help THEN ParseHelp
        ELSE ParseOk(end.st, json)

(***************************************************************************)
(* The command lines drawn, and the run of main on the extract ones.        *)
(***************************************************************************)
\* --sections=1 and --slug= (an empty slug)
TokSectionsOne == TokSections \o <<"=", "1">>
TokSlugEmpty == TokSlug \o <<"=">>

CliTokens ==
    {TokJson, TokTag, TokAi, TokNote, TokExtract, EntryRef, <<"1">>, TokSectionsOne,
     TokSlugEmpty, SlugN2}

\* longer command lines: the extractions that go through, and the ones that
\* name no slug
LongArgLists ==
    {<<TokExtract, EntryRef, <<"1">>, <<"2">>, SlugN2>>,
     <<TokExtract, EntryRef, <<"1">>, <<"2">>, TokSlug, SlugN2>>,
     <<TokExtract, EntryRef, TokSectionsOne, SlugN2>>,
     <<TokJson, TokExtract, EntryRef, TokSectionsOne, SlugN2>>,
     <<TokExtract, EntryRef, <<"1">>, <<"2">>, TokSlug>>,
     <<TokExtract, EntryRef, <<"1">>, <<"2">>, TokSlugEmpty>>,
     <<TokExtract, EntryRef, <<"1">>, <<"2">>, <<>>>>,
     <<TokExtract, EntryRef, <<"1">>, <<"2">>, <<" ">>>>,
     <<TokExtract, EntryRef, <<"1">>, <<"2">>, TokJson>>,
     <<TokExtract, EntryRef, <<"9">>, <<"9">>, SlugN2>>,
     <<TokHelp>>}

ArgLists == UNION {[1..k -> CliTokens] : k \in 0..MaxArgs} \cup LongArgLists

\* the command lines that ask for an extraction: -x comes first, and they
\* fail in parseArgs or leave it in the extract mode
ExtractArgLists ==
    {args \in ArgLists :
        /\ FilteredArgs(args) # <<>>
        /\ Head(FilteredArgs(args)) = TokExtract
        /\ parseArgs(args).failed \/ parseArgs(args).parsed.mode = "extract"}

InitCli ==
    /\ files = WriteFile(EmptyFiles, EntryPath, DocAB)
    /\ inv = [p \in Procs |-> IF p = 1 THEN Idle ELSE Off]
    /\ \/ \E args \in ArgLists :
             call = [fn |-> "parseArgs", args |-> args, done |-> FALSE, ret |-> <<>>]
       \/ \E args \in ExtractArgLists \cup {<<TokHelp>>} :
             call = [fn |-> "main", args |-> args, done |-> FALSE, ret |-> <<>>]

CallParseArgs ==
    /\ call.fn = "parseArgs"
    /\ ~call.done
    /\ call' = [call EXCEPT !.done = TRUE, !.ret = parseArgs(call.args)]
    /\ UNCHANGED <<files, inv>>

\* the end of the process: process.exitCode and the one line on the error
\* stream
Exit(code, message) == [call EXCEPT !.done = TRUE, !.ret = [exitCode |-> code, error |-> message]]

\* main up to the call of the extraction (fs.makeDirectory(journalDir) makes
\* a directory and no file)
MainStart(p) ==
    /\ call.fn = "main"
    /\ ~call.done
    /\ inv[p].pc = "idle"
    /\ \E parsed \in {parseArgs(call.args)} :
          IF parsed.failed
          THEN call' = Exit(1, parsed.error) /\ UNCHANGED <<files, inv>>
          ELSE IF parsed.help
          THEN call' = Exit(0, "") /\ UNCHANGED <<files, inv>>
          ELSE \E a \in {parsed.parsed} :
                  IF ~Truthy(a.extractSource) \/ ~Truthy(a.extractSlug)
                  THEN call' = Exit(0, "") /\ UNCHANGED <<files, inv>>
                  ELSE IF a.extractSections # NoList /\ Len(a.extractSections) > 0
                  THEN ExtractSectionsStart(p, a.extractSource,
                                            [isText |-> FALSE, list |-> a.extractSections,
                                             text |-> <<>>],
                                            a.extractSlug)
                  ELSE IF a.extractStart # NoNumber /\ a.extractEnd # NoNumber
                  THEN ExtractToNoteStart(p, a.extractSource, a.extractStart,
                                          a.extractEnd, a.extractSlug)
                  ELSE call' = Exit(1, "Missing extract sections.")
                       /\ UNCHANGED <<files, inv>>

\* the extraction has ended: main returns, or its failure reaches the catch
MainEnd(p) ==
    /\ call.fn = "main"
    /\ ~call.done
    /\ inv[p].pc \in {"done", "failed"}
    /\ call' = IF inv[p].pc = "done" THEN Exit(0, "") ELSE Exit(1, inv[p].error)
    /\ UNCHANGED <<files, inv>>

NextCli ==
    \/ CallParseArgs
    \/ \E p \in Procs :
          \/ MainStart(p)
          \/ ExtractToNoteWriteSource(p)
          \/ ExtractSectionsWriteSource(p)
          \/ EnsureTarget(p)
          \/ ReadTarget(p)
          \/ WriteTarget(p)
          \/ MainEnd(p)

SpecCli == InitCli /\ [][NextCli]_vars

(***************************************************************************)
(* Claims about the command line.                                           *)
(***************************************************************************)
\* the command line names a target slug that is not empty: after --slug, in
\* --slug=<slug>, or as a word of its own after the source and the numbers
NamesSlug(args) ==
    LET words == FilteredArgs(args)
    IN  \E i \in 1..Len(words) :
           \/ i > 1 /\ words[i - 1] = TokSlug /\ words[i] # <<>>
           \/ StartsWith[words[i], TokSlugEmpty] /\ words[i] # TokSlugEmpty
           \/ /\ i > 2
              /\ words[i] # <<>>
              /\ ~IsDashed(words[i])
              /\ \E c \in 1..Len(words[i]) : words[i][c] \notin Digits

\* main has ended on a command line
MainEnded == call.fn = "main" /\ call.done /\ call.args # <<TokHelp>>

\* C21: an extract invocation that names no target slug, or an empty one,
\* ends with exit status 1 and a message on the error stream, and no file is
\* written.
C21_MissingSlugIsFatal ==
    (MainEnded /\ ~NamesSlug(call.args)) =>
        /\ call.ret.exitCode # 0
        /\ call.ret.error # ""
        /\ files = WriteFile(EmptyFiles, EntryPath, DocAB)

\* the fields of the parsed arguments other than json
SameButJson(a, b) ==
    /\ a.failed = b.failed
    /\ a.help = b.help
    /\ a.error = b.error
    /\ a.parsed = b.parsed

\* C30: parseArgs returns for a command line what it returns for the command
\* line without its --json, the json flag apart.
C30_JsonAnywhere ==
    (call.fn = "parseArgs" /\ call.done) =>
        SameButJson(call.ret, parseArgs(FilteredArgs(call.args)))

====
